---- MODULE Spec2Model ----
\* Model of snyk-refresh: the manifest run (runRefresh) and the cleanup run
\* (runDedup) of src/main.go, over the paginated fetchers of the API client.
EXTENDS Integers, Sequences, FiniteSets, TLC

\* ---------------------------------------------------------------- bounds

\* Largest total number of leaf records (projects) over all accounts.
MaxProjects == 4
\* Largest total number of leaf records whose attributes all vary freely; in
\* larger worlds only the names vary.
MaxRich == 2
\* Largest value of the --concurrency flag that is tried (0..MaxConcurrency).
MaxConcurrency == 2
\* Records per page served by the remote API (the client asks for limit=100).
PageLimit == 1
\* Largest total number of leaf records in the worlds of the fair specification.
MaxLive == 1
\* Largest number of pages the remote API holds for a link-based fetcher.
MaxPages == 2
\* Largest number of pages the remote API holds for the account listing.
MaxOrgPages == 3
\* Largest number of calls of the functions of the targets package in a row.
MaxCalls == 2

\* ---------------------------------------------------------------- universe

Orgs == {"o1", "o2"}
OrgOrder == <<"o1", "o2">>

\* Creation timestamps as the API sends them: fixed-width digit strings,
\* here two characters wide ("09", "10", "11").
StampOrder == << <<0, 9>>, <<1, 0>>, <<1, 1>> >>
Stamps == {StampOrder[i] : i \in 1..Len(StampOrder)}
\* The instant a timestamp string denotes.
TimeOf(s) == s[1] * 10 + s[2]

\* Project names are strings "<owner>/<repo>:<path>", as sequences of characters.
NameOrder == << <<"a", "/", "b", ":", "p">>, <<"a", "/", "c", ":", "p">> >>
Names == {NameOrder[i] : i \in 1..Len(NameOrder)}
TargetOrder == <<"t1", "t2">>
TargetRefs == {TargetOrder[i] : i \in 1..Len(TargetOrder)}

\* The parent records of every account: t1 and t2 share a display name, t3
\* has a display name of its own.
ParentWorld ==
  << [ID |-> "t1", DisplayName |-> "a/b"],
     [ID |-> "t2", DisplayName |-> "a/b"],
     [ID |-> "t3", DisplayName |-> "a/z"] >>

\* The connectors of every account: integration type -> integration ID. Account
\* o1 has a bitbucket-server connector, the others list it with an empty ID.
IntegrationsOf(o) ==
  [k \in {"github", "bitbucket-server"} |->
     IF k = "github" \/ o = "o1" THEN <<o, k>> ELSE <<>>]

\* Org.Name and Org.Slug as the group listing returns them.
OrgName(o) == <<"N", o>>
OrgSlug(o) == <<"s", o>>

\* ---------------------------------------------------------------- helpers

Range(s) == {s[i] : i \in 1..Len(s)}

\* All orderings of a finite set, as sequences without repetition.
Perms(S) ==
  {s \in [1..Cardinality(S) -> S] : \A i, j \in 1..Cardinality(S) : i # j => s[i] # s[j]}

RECURSIVE Concat(_)
Concat(ss) == IF ss = <<>> THEN <<>> ELSE Head(ss) \o Concat(Tail(ss))

\* Go's < on strings: bytewise lexicographic order.
RECURSIVE StrLess(_, _)
StrLess(a, b) ==
  IF b = <<>> THEN FALSE
  ELSE IF a = <<>> THEN TRUE
  ELSE IF Head(a) # Head(b) THEN Head(a) < Head(b)
  ELSE StrLess(Tail(a), Tail(b))

\* The pages the server cuts a record list into (one empty page for no records).
RECURSIVE Chunk(_)
Chunk(L) ==
  IF Len(L) <= PageLimit THEN <<L>>
  ELSE <<SubSeq(L, 1, PageLimit)>> \o Chunk(SubSeq(L, PageLimit + 1, Len(L)))

\* ---------------------------------------------------------------- API client

\* Host of the configured API base URL.
ApiHost == <<"a", ".", "i", "o">>

\* The configured API base URL (GetSnykAPIBaseURL), without a trailing slash.
Https == <<"h", "t", "t", "p", "s">>
Http == <<"h", "t", "t", "p">>
baseURL == Https \o <<":", "/", "/">> \o ApiHost

\* strings.HasPrefix, strings.HasSuffix, strings.IndexByte and
\* strings.LastIndexByte (0 when the byte is absent).
HasPrefix(s, pre) == Len(s) >= Len(pre) /\ SubSeq(s, 1, Len(pre)) = pre

HasSuffix(s, suf) ==
  Len(s) >= Len(suf) /\ SubSeq(s, Len(s) - Len(suf) + 1, Len(s)) = suf

IndexByte(s, c) ==
  IF \E i \in 1..Len(s) : s[i] = c
  THEN CHOOSE i \in 1..Len(s) : s[i] = c /\ \A j \in 1..(i - 1) : s[j] # c
  ELSE 0

LastIndexByte(s, c) ==
  IF \E i \in 1..Len(s) : s[i] = c
  THEN CHOOSE i \in 1..Len(s) : s[i] = c /\ \A j \in (i + 1)..Len(s) : s[j] # c
  ELSE 0

DigitChars == {"1", "2", "3", "4", "5", "6", "7", "8", "9", "0"}
SchemeRestChars == DigitChars \cup {"+", "-", "."}
Delimiters == {":", "/", "@", "?", "#"}

\* The first byte of s that cannot be part of a scheme (0 when there is none).
FirstStop(s) ==
  LET stops == {i \in 1..Len(s) :
                  s[i] \in Delimiters \/ (i = 1 /\ s[i] \in SchemeRestChars)}
  IN IF stops = {} THEN 0 ELSE CHOOSE k \in stops : \A j \in stops : k <= j

SchemeAt(rawURL, i) ==
  IF i = 0 \/ rawURL[i] # ":" THEN [err |-> FALSE, scheme |-> <<>>, rest |-> rawURL]
  ELSE IF i = 1 THEN [err |-> TRUE, scheme |-> <<>>, rest |-> <<>>]
  ELSE [err |-> FALSE, scheme |-> SubSeq(rawURL, 1, i - 1),
        rest |-> SubSeq(rawURL, i + 1, Len(rawURL))]

\* net/url getScheme: the bytes before the first ":" when they are a letter
\* followed by letters, digits, "+", "-" and "."; no scheme when another byte
\* comes first; an error when the string starts with ":".
getScheme(rawURL) == SchemeAt(rawURL, FirstStop(rawURL))

\* strings.Cut: the part of s before the first c (s itself without c).
CutAt(s, c) == IF IndexByte(s, c) = 0 THEN s ELSE SubSeq(s, 1, IndexByte(s, c) - 1)

ParseFailed == [err |-> TRUE, Scheme |-> <<>>, Host |-> <<>>]

\* parseHost: a port, the bytes after the last ":", must be a number.
ParseHost(scheme, host) ==
  IF \E j \in (LastIndexByte(host, ":") + 1)..Len(host) :
       LastIndexByte(host, ":") > 0 /\ host[j] \notin DigitChars
  THEN ParseFailed
  ELSE [err |-> FALSE, Scheme |-> scheme, Host |-> host]

\* parseAuthority: the host follows the user information, which ends at the
\* last "@".
ParseAuthority(scheme, authority) ==
  ParseHost(scheme, SubSeq(authority, LastIndexByte(authority, "@") + 1, Len(authority)))

\* The authority follows "//" and ends before the next "/". A colon in the
\* first segment of a path without scheme is an error.
ParseRest(scheme, rest) ==
  IF HasPrefix(rest, <<"/", "/">>)
  THEN ParseAuthority(scheme, CutAt(SubSeq(rest, 3, Len(rest)), "/"))
  ELSE IF scheme = <<>> /\ ~HasPrefix(rest, <<"/">>) /\ IndexByte(CutAt(rest, "/"), ":") > 0
  THEN ParseFailed
  ELSE [err |-> FALSE, Scheme |-> scheme, Host |-> <<>>]

ParseFrom(sc) == IF sc.err THEN ParseFailed ELSE ParseRest(sc.scheme, CutAt(sc.rest, "?"))

\* net/url Parse, as far as isAllowedNextURL and the HTTP client read its
\* result: the scheme and the host (with its port). The fragment after "#"
\* and the query after "?" are cut off first.
Parse(rawURL) == ParseFrom(getScheme(CutAt(rawURL, "#")))

\* URL.Hostname: the host without its port.
Hostname(u) == CutAt(u.Host, ":")

\* A host that merely ends in the allowed host.
EndsInHost(host, allowedHost) == HasSuffix(host, allowedHost)

\* host == allowedHost || strings.HasSuffix(host, "."+allowedHost)
HostMatches(host, allowedHost) ==
  host = allowedHost \/ HasSuffix(host, <<".">> \o allowedHost)

\* A check that lets every reference through.
AllowsAny(nextURL, allowedHost) == TRUE

\* The part of isAllowedNextURL after url.Parse.
AllowedParsed(u, allowedHost) ==
  IF u.err THEN FALSE
  ELSE IF u.Scheme # Https THEN FALSE
  ELSE HostMatches(Hostname(u), allowedHost)

isAllowedNextURL(nextURL, allowedHost) ==
  IF nextURL = <<>> THEN FALSE
  ELSE IF HasPrefix(nextURL, <<"/">>) THEN TRUE
  ELSE AllowedParsed(Parse(nextURL), allowedHost)

\* A continuation reference (links.next) as the server sends it: absent or
\* empty, a root-relative path, or an absolute URL with a scheme and a host.
NoRef == <<>>
RelRef == <<"/", "p">>
AbsRef(scheme, host) == scheme \o <<":", "/", "/">> \o host \o <<"/", "p">>

\* apiHost: the Host of the parsed base URL, a fixed host when it has none.
apiHost ==
  LET parsed == Parse(baseURL)
  IN IF ~parsed.err /\ parsed.Host # <<>> THEN parsed.Host ELSE ApiHost

\* A client that follows every reference it is given.
FollowedUnchecked(nextStr) ==
  IF HasPrefix(nextStr, <<"/">>) THEN baseURL \o nextStr ELSE nextStr

\* nextURL after a page: empty, unless links.next is a non-empty string that
\* isAllowedNextURL accepts; a reference that begins with "/" is appended to
\* the base URL.
FollowedURL(nextStr) ==
  IF nextStr # <<>> /\ isAllowedNextURL(nextStr, apiHost)
  THEN IF HasPrefix(nextStr, <<"/">>) THEN baseURL \o nextStr ELSE nextStr
  ELSE <<>>

\* A client that keeps the records of the last page only.
KeepLast(all, recs) == recs

\* append(all, recs...)
Gather(all, recs) == all \o recs

FetchError == [err |-> TRUE, items |-> <<>>]

\* The Project decoded from one element of a page's data: branch falls back to
\* targetReference.
DecodeProject(raw) ==
  [raw EXCEPT !.Branch = IF raw.Branch = <<>> THEN raw.TargetReference ELSE raw.Branch]

DecodeProjects(data) == [i \in 1..Len(data) |-> DecodeProject(data[i])]

\* FetchProjects: the loop over pages. resp[i] is the server's answer to the
\* i-th request: a status, the decoded records and the continuation reference.
RECURSIVE FetchProjectsLoop(_, _, _)
FetchProjectsLoop(resp, i, projects) ==
  LET r == resp[i] IN
  IF r.status = 404 THEN [err |-> FALSE, items |-> projects]
  ELSE IF r.status # 200 THEN FetchError
  ELSE IF FollowedURL(r.next) # <<>>
       THEN FetchProjectsLoop(resp, i + 1, Gather(projects, DecodeProjects(r.data)))
       ELSE [err |-> FALSE, items |-> Gather(projects, DecodeProjects(r.data))]

FetchProjects(resp) == FetchProjectsLoop(resp, 1, <<>>)

RECURSIVE FetchTargetsLoop(_, _, _)
FetchTargetsLoop(resp, i, targets) ==
  LET r == resp[i] IN
  IF r.status = 404 THEN [err |-> FALSE, items |-> targets]
  ELSE IF r.status # 200 THEN FetchError
  ELSE IF FollowedURL(r.next) # <<>>
       THEN FetchTargetsLoop(resp, i + 1, Gather(targets, r.data))
       ELSE [err |-> FALSE, items |-> Gather(targets, r.data)]

FetchTargets(resp) == FetchTargetsLoop(resp, 1, <<>>)

\* What the remote API may answer when the record list L is requested: L cut
\* into pages, each with a continuation reference to the next. The client
\* stops at the first page that is not a 200 with a reference it follows, so
\* the answers differ in one page k: its status and its reference.
RunStatuses == {200, 404, 500}
RunRefs == {RelRef, AbsRef(Http, ApiHost)}

Responses(L) ==
  LET pages == Chunk(L)
      n == Len(pages)
  IN { [i \in 1..n |-> [status |-> IF i = k THEN st ELSE 200,
                        data |-> pages[i],
                        next |-> IF i = n THEN NoRef ELSE IF i = k THEN nx ELSE RelRef]] :
         k \in 1..n, st \in RunStatuses, nx \in RunRefs }

\* ListIntegrations: one request; any status but 200 is an error.
ListIntegrations(r) ==
  IF r.status # 200 THEN [err |-> TRUE, data |-> <<>>]
  ELSE [err |-> FALSE, data |-> r.data]

IntegrationFetches(o) ==
  {ListIntegrations([status |-> st, data |-> IntegrationsOf(o)]) : st \in {200, 500}}

ProjectFetches(L) == {FetchProjects(resp) : resp \in Responses(L)}
TargetFetches(L) == {FetchTargets(resp) : resp \in Responses(L)}

\* ---------------------------------------------------------------- state

VARIABLES
  mode,            \* "dedup" (os.Args[1] = "dedup") or "refresh"
  doDelete,        \* the --delete flag
  concurrency,     \* the --concurrency flag
  worldProjects,   \* remote state: the leaf records of every account, in list order
  worldTargets,    \* remote state: the parent records of every account
  pc,              \* position of every account task (goroutine)
  sem,             \* number of permits held in the sem channel
  wg,              \* counter of the WaitGroup
  results,         \* the buffered results channel
  closed,          \* whether the results channel is closed
  taskRes,         \* the result every account task has sent (history)
  fetched,         \* what FetchProjects returned to every account task (history)
  received,        \* the accounts whose result the collector has received, in order (history)
  mpc,             \* position of the main goroutine
  failedOrgs,
  orgsWithDuplicates,
  p1,              \* phase 1 cursor: <<account index, group index, index in dupes>>
  totalDuplicates, totalDeleted, totalFailed,
  orgsAffected,
  p2todo,          \* accounts of orgsAffected the phase 2 loop has not visited
  p2org,           \* account the phase 2 loop is in
  p2queue,         \* empty duplicate targets of p2org still to handle
  p2found,         \* every <<account, target ID>> phase 2 has queued (history)
  targetsDeleted, targetsFailed,
  log,             \* remote calls and report lines of the main goroutine, in order
                   \* (id: the record concerned; of a fetch, the number of records returned)
  integrationType, \* the --integrationType flag of the manifest run
  sub,             \* manifest run: what the two subfetches of every task returned
  out,             \* manifest run: the RefreshOutput being collected
  processedOrgs,
  fn,              \* API client on its own: the fetcher that is called
  server,          \* the answer of the remote API to the request for every page
  nextURL,         \* link-based fetchers: the URL of the next request
  page,            \* FetchOrgs: the number of the next page
  allRecords,      \* the records gathered so far (projects, targets, allOrgs)
  requests,        \* the requests issued so far, in order (history)
  checks,          \* the applications of isAllowedNextURL so far (history)
  ret,             \* what the fetcher has returned
  calls            \* targets package on its own: the calls made so far, with their
                   \* arguments and results (history)

vars ==
  << mode, doDelete, concurrency, worldProjects, worldTargets, pc, sem, wg,
     results, closed, taskRes, fetched, received, mpc, failedOrgs, orgsWithDuplicates, p1,
     totalDuplicates, totalDeleted, totalFailed, orgsAffected, p2todo, p2org,
     p2queue, p2found, targetsDeleted, targetsFailed, log, integrationType, sub, out,
     processedOrgs, fn, server, nextURL, page, allRecords, requests, checks, ret,
     calls >>

worldVars == << worldProjects, worldTargets >>
flagVars == << mode, doDelete, concurrency, integrationType >>
clientVars == << fn, server, nextURL, page, allRecords, requests, checks, ret, calls >>
refreshVars == << sub, out, processedOrgs >>
dedupVars ==
  << orgsWithDuplicates, p1, totalDuplicates, totalDeleted, totalFailed, orgsAffected,
     p2todo, p2org, p2queue, p2found, targetsDeleted, targetsFailed, log >>
taskVars == << pc, sem, wg, results, closed, taskRes, fetched >>
phase1Vars == << p1, totalDuplicates, totalDeleted, totalFailed, orgsAffected >>
phase2Vars == << p2todo, p2org, p2queue, p2found, targetsDeleted, targetsFailed >>

NoResult == [none |-> TRUE]

OrgRank(o) == CHOOSE i \in 1..Len(OrgOrder) : OrgOrder[i] = o

\* ---------------------------------------------------------------- initial worlds

LeafKindsDedup ==
  [Name : Names, Origin : {"github"}, Branch : {<<>>}, TargetReference : {<<>>},
   Created : Stamps, TargetID : TargetRefs]

\* Leaf record i of the group, of kind k.
MkProject(i, k) ==
  [ID |-> i, Name |-> k.Name, Origin |-> k.Origin, Branch |-> k.Branch,
   TargetReference |-> k.TargetReference, Created |-> k.Created,
   TargetID |-> k.TargetID]

\* The leaf records of account o, in list order, when record i belongs to
\* owner[i] and is of kind kind[i].
OrgProjects(o, n, owner, kind) ==
  LET all == [i \in 1..n |-> [org |-> owner[i], rec |-> MkProject(i, kind[i])]]
      mine == SelectSeq(all, LAMBDA x : x.org = o)
  IN [i \in 1..Len(mine) |-> mine[i].rec]

Owners(n) ==
  {w \in [1..n -> Orgs] : \A i, j \in 1..n : i < j => OrgRank(w[i]) <= OrgRank(w[j])}

\* Names and parent references are only compared for equality and timestamps
\* only for order, so the worlds are taken up to renaming: within an account a
\* name (a parent reference) is used only after the names (references) before
\* it in NameOrder (TargetOrder), and the timestamps in use are the earliest
\* ones of Stamps.
CanonicalNames(n, owner, kind) ==
  \A i \in 1..n :
    \A r \in 2..Len(NameOrder) :
      kind[i].Name = NameOrder[r] =>
        \E j \in 1..(i - 1) : owner[j] = owner[i] /\ kind[j].Name = NameOrder[r - 1]

CanonicalRich(n, owner, kind) ==
  \A i \in 1..n :
    /\ \A r \in 2..Len(TargetOrder) :
         kind[i].TargetID = TargetOrder[r] =>
           \E j \in 1..(i - 1) : owner[j] = owner[i] /\ kind[j].TargetID = TargetOrder[r - 1]
    /\ \A s \in Stamps :
         TimeOf(s) < TimeOf(kind[i].Created) =>
           \E j \in 1..n : owner[j] = owner[i] /\ kind[j].Created = s

\* In the worlds of more than MaxRich records, record i is created at a
\* timestamp and hangs under a parent that its position fixes: later records
\* are older, and neighbours hang under different parents.
PlainStamp(i) == StampOrder[Len(StampOrder) - ((i - 1) % Len(StampOrder))]
PlainTarget(i) == TargetOrder[((i - 1) % Len(TargetOrder)) + 1]
\* Every third record was imported through another connector.
PlainOrigin(i) == IF i % 3 = 2 THEN "bitbucket-cloud" ELSE "github"

PlainKinds(n) ==
  {[i \in 1..n |-> [Name |-> nm[i], Origin |-> PlainOrigin(i), Branch |-> <<>>,
                    TargetReference |-> <<>>, Created |-> PlainStamp(i),
                    TargetID |-> PlainTarget(i)]] : nm \in [1..n -> Names]}

KindsDedup(n) == IF n <= MaxRich THEN [1..n -> LeafKindsDedup] ELSE PlainKinds(n)

Canonical(n, owner, kind) ==
  /\ CanonicalNames(n, owner, kind)
  /\ n <= MaxRich => CanonicalRich(n, owner, kind)

\* The variables of the API client on its own while a run is modelled.
InitClientIdle ==
  /\ fn = "" /\ server = <<>> /\ nextURL = <<>> /\ page = 0
  /\ allRecords = <<>> /\ requests = <<>> /\ checks = {} /\ ret = [none |-> TRUE]
  /\ calls = <<>>

InitTasks ==
  /\ pc = [o \in Orgs |-> "wait"]
  /\ sem = 0
  /\ wg = Cardinality(Orgs)
  /\ results = <<>>
  /\ closed = FALSE
  /\ taskRes = [o \in Orgs |-> NoResult]
  /\ fetched = [o \in Orgs |-> NoResult]
  /\ received = <<>>

EmptyOutput == [Targets |-> <<>>, Orgs |-> <<>>, Integrations |-> <<>>]

\* The manifest run's variables while the cleanup run is modelled.
InitRefreshIdle ==
  /\ integrationType = ""
  /\ sub = [o \in Orgs |-> [int |-> NoResult, proj |-> NoResult]]
  /\ out = EmptyOutput
  /\ processedOrgs = 0

InitDedup ==
  /\ mode = "dedup"
  /\ doDelete \in BOOLEAN
  /\ concurrency \in 0..MaxConcurrency
  /\ \E n \in 0..MaxProjects :
       \E owner \in Owners(n), kind \in KindsDedup(n) :
         /\ Canonical(n, owner, kind)
         /\ worldProjects = [o \in Orgs |-> OrgProjects(o, n, owner, kind)]
  /\ worldTargets = [o \in Orgs |-> ParentWorld]
  /\ InitTasks
  /\ InitClientIdle
  /\ mpc = "collect"
  /\ failedOrgs = 0
  /\ orgsWithDuplicates = <<>>
  /\ p1 = <<1, 1, 1>>
  /\ totalDuplicates = 0 /\ totalDeleted = 0 /\ totalFailed = 0
  /\ orgsAffected = {}
  /\ p2todo = {} /\ p2org = "" /\ p2queue = <<>> /\ p2found = {}
  /\ targetsDeleted = 0 /\ targetsFailed = 0
  /\ log = <<>>
  /\ InitRefreshIdle

\* ---------------------------------------------------------------- cleanup run: scan

\* A grouping key that tells the origins of one name apart.
GroupKeyWithOrigin(p) == <<p.Name, p.Origin>>

\* The key of the grouped map: grouped[p.Name].
GroupKey(p) == p.Name

\* grouped: the projects of one account by name, each group in fetch order.
Grouped(projects) ==
  [n \in {GroupKey(p) : p \in Range(projects)} |->
     SelectSeq(projects, LAMBDA p : GroupKey(p) = n)]

\* A less function that orders the newest record first.
CreatedGreater(a, b) == StrLess(b.Created, a.Created)

\* The less function handed to sort.Slice.
CreatedLess(a, b) == StrLess(a.Created, b.Created)

\* sort.Slice is not stable: every arrangement that is ordered by the less
\* function is a possible result.
SortSlice(projs) ==
  {s \in Perms(Range(projs)) :
     \A i \in 1..(Len(s) - 1) : ~CreatedLess(s[i + 1], s[i])}

\* Whether a group of the map becomes a duplicate group.
IsDuplicateGroup(projs) == Len(projs) >= 2

\* res.groups: the duplicate groups of one account. The map is ranged over in
\* any order.
DuplicateGroups(projects) ==
  LET g == Grouped(projects)
      keys == {n \in DOMAIN g : IsDuplicateGroup(g[n])}
      sorts == {f \in [keys -> UNION {SortSlice(g[k]) : k \in keys}] :
                  \A k \in keys : f[k] \in SortSlice(g[k])}
  IN { [i \in 1..Len(order) |-> [key |-> order[i], projects |-> f[order[i]]]] :
         order \in Perms(keys), f \in sorts }

\* A semaphore channel with room for one value more than `concurrency`.
AcquireWithSpare == sem <= concurrency

\* A semaphore into which any number of sends succeed.
AcquireUnbounded == TRUE

\* The permit is acquired by a send on the sem channel, which blocks while the
\* channel holds `concurrency` values.
CanAcquire == sem < concurrency

\* A release that leaves the permit in the channel.
ReleaseKeeps(n) == n

\* The permit count after the deferred receive from sem.
Released(n) == n - 1

\* A range loop that ends as soon as the channel is empty.
RangeDoneWhenEmpty == results = <<>>

\* `for res := range results` ends when the channel is closed and drained.
RangeDone == results = <<>> /\ closed

DedupAcquire(o) ==
  /\ mode = "dedup"
  /\ pc[o] = "wait"
  /\ CanAcquire
  /\ sem' = sem + 1
  /\ pc' = [pc EXCEPT ![o] = "run"]
  /\ UNCHANGED << received, flagVars, clientVars, refreshVars, worldVars, wg, results, closed, taskRes,
                  fetched, mpc, failedOrgs, orgsWithDuplicates, phase1Vars, phase2Vars,
                  log >>

\* The body of an account task: fetch the projects, group them, send the result.
DedupScan(o) ==
  /\ mode = "dedup"
  /\ pc[o] = "run"
  /\ \E f \in ProjectFetches(worldProjects[o]) :
       \E res \in IF f.err
                  THEN {[orgID |-> o, err |-> TRUE, groups |-> <<>>, projectCount |-> 0]}
                  ELSE {[orgID |-> o, err |-> FALSE, groups |-> gs,
                         projectCount |-> Len(f.items)] : gs \in DuplicateGroups(f.items)} :
         /\ results' = Append(results, res)
         /\ taskRes' = [taskRes EXCEPT ![o] = res]
         /\ fetched' = [fetched EXCEPT ![o] = f]
  /\ pc' = [pc EXCEPT ![o] = "sent"]
  /\ UNCHANGED << received, flagVars, clientVars, refreshVars, worldVars, sem, wg, closed, mpc,
                  failedOrgs, orgsWithDuplicates, phase1Vars, phase2Vars, log >>

\* defer func() { <-sem }()
DedupRelease(o) ==
  /\ mode = "dedup"
  /\ pc[o] = "sent"
  /\ sem' = Released(sem)
  /\ pc' = [pc EXCEPT ![o] = "released"]
  /\ UNCHANGED << received, flagVars, clientVars, refreshVars, worldVars, wg, results, closed, taskRes,
                  fetched, mpc, failedOrgs, orgsWithDuplicates, phase1Vars, phase2Vars,
                  log >>

\* defer wg.Done()
DedupWgDone(o) ==
  /\ mode = "dedup"
  /\ pc[o] = "released"
  /\ wg' = wg - 1
  /\ pc' = [pc EXCEPT ![o] = "done"]
  /\ UNCHANGED << received, flagVars, clientVars, refreshVars, worldVars, sem, results, closed,
                  taskRes, fetched, mpc, failedOrgs, orgsWithDuplicates, phase1Vars,
                  phase2Vars, log >>

\* go func() { wg.Wait(); close(results) }()
DedupClose ==
  /\ mode = "dedup"
  /\ wg = 0
  /\ ~closed
  /\ closed' = TRUE
  /\ UNCHANGED << received, flagVars, clientVars, refreshVars, worldVars, pc, sem, wg, results,
                  taskRes, fetched, mpc, failedOrgs, orgsWithDuplicates, phase1Vars,
                  phase2Vars, log >>

\* One iteration of `for res := range results`.
DedupCollect ==
  /\ mode = "dedup"
  /\ mpc = "collect"
  /\ results # <<>>
  /\ LET res == Head(results) IN
       IF res.err
       THEN /\ failedOrgs' = failedOrgs + 1
            /\ UNCHANGED orgsWithDuplicates
       ELSE /\ UNCHANGED failedOrgs
            /\ orgsWithDuplicates' =
                 IF Len(res.groups) > 0
                 THEN Append(orgsWithDuplicates, [orgID |-> res.orgID, groups |-> res.groups])
                 ELSE orgsWithDuplicates
  /\ results' = Tail(results)
  /\ received' = Append(received, Head(results).orgID)
  /\ UNCHANGED << flagVars, clientVars, refreshVars, worldVars, pc, sem, wg, closed, taskRes, fetched,
                  mpc, phase1Vars, phase2Vars, log >>

\* The range loop ends when the channel is closed and drained.
DedupCollectEnd ==
  /\ mode = "dedup"
  /\ mpc = "collect"
  /\ RangeDone
  /\ mpc' = "phase1"
  /\ UNCHANGED << received, flagVars, clientVars, refreshVars, worldVars, taskVars, failedOrgs,
                  orgsWithDuplicates, phase1Vars, phase2Vars, log >>

\* ---------------------------------------------------------------- cleanup run: phase 1

\* original := g.projects[0]; dupes := g.projects[1:]
Original(g) == g.projects[1]
Dupes(g) == SubSeq(g.projects, 2, Len(g.projects))

\* A run that deletes whatever the flag says.
IssueDeleteAlways == TRUE

\* if *doDelete { ... } else { report }
IssueDelete == doDelete

\* The remote effect of a successful DeleteProject.
RemoveProject(list, id) == SelectSeq(list, LAMBDA p : p.ID # id)

\* A cursor that leaves the account after one record.
AdvanceToNextOrg(cur) == <<cur[1] + 1, 1, 1>>

\* The cursor after the record at <<oi, gi, di>> has been handled.
Advance(cur) ==
  LET res == orgsWithDuplicates[cur[1]]
      g == res.groups[cur[2]]
  IN IF cur[3] < Len(Dupes(g)) THEN <<cur[1], cur[2], cur[3] + 1>>
     ELSE IF cur[2] < Len(res.groups) THEN <<cur[1], cur[2] + 1, 1>>
     ELSE <<cur[1] + 1, 1, 1>>

\* Phase 1 loops that stop after the first record.
Phase1StopsEarly == p1[1] > Len(orgsWithDuplicates) \/ p1 # <<1, 1, 1>>

\* Whether the phase 1 loops have handled every group of every account.
Phase1Finished == p1[1] > Len(orgsWithDuplicates)

\* One iteration of `for _, d := range dupes`, with the bookkeeping of the
\* enclosing loops when it is the first record of its group or account.
Phase1Step ==
  /\ mode = "dedup"
  /\ mpc = "phase1"
  /\ ~Phase1Finished
  /\ LET res == orgsWithDuplicates[p1[1]]
         g == res.groups[p1[2]]
         d == Dupes(g)[p1[3]]
     IN /\ orgsAffected' = orgsAffected \cup {res.orgID}
        /\ totalDuplicates' =
             IF p1[3] = 1 THEN totalDuplicates + Len(Dupes(g)) ELSE totalDuplicates
        /\ IF IssueDelete
           THEN \E ok \in BOOLEAN :
                  /\ log' = Append(log, [op |-> "DeleteProject", org |-> res.orgID,
                                         id |-> d.ID, ok |-> ok])
                  /\ worldProjects' =
                       IF ok
                       THEN [worldProjects EXCEPT
                               ![res.orgID] = RemoveProject(worldProjects[res.orgID], d.ID)]
                       ELSE worldProjects
                  /\ totalDeleted' = IF ok THEN totalDeleted + 1 ELSE totalDeleted
                  /\ totalFailed' = IF ok THEN totalFailed ELSE totalFailed + 1
           ELSE /\ log' = Append(log, [op |-> "ReportProject", org |-> res.orgID,
                                       id |-> d.ID, ok |-> TRUE])
                /\ UNCHANGED << worldProjects, totalDeleted, totalFailed >>
        /\ p1' = Advance(p1)
  /\ UNCHANGED << received, flagVars, clientVars, refreshVars, worldTargets, taskVars, mpc, failedOrgs,
                  orgsWithDuplicates, phase2Vars >>

\* A phase 2 that visits every account.
EveryAccount == Orgs

\* The accounts phase 2 ranges over: `for orgID := range orgsAffected`.
Phase2Accounts == orgsAffected

\* Phase 1 is over: `if len(orgsAffected) > 0` starts the phase 2 loop over the
\* orgsAffected map.
Phase1End ==
  /\ mode = "dedup"
  /\ mpc = "phase1"
  /\ Phase1Finished
  /\ mpc' = "phase2"
  /\ p2todo' = Phase2Accounts
  /\ UNCHANGED << received, flagVars, clientVars, refreshVars, worldVars, taskVars, failedOrgs,
                  orgsWithDuplicates, phase1Vars, p2org, p2queue, p2found, targetsDeleted,
                  targetsFailed, log >>

\* ---------------------------------------------------------------- cleanup run: phase 2

\* activeTargets: the target IDs the re-fetched projects refer to.
ActiveTargets(projects) ==
  {p.TargetID : p \in {q \in Range(projects) : q.TargetID # ""}}

\* targetsByName
TargetsByName(targets) ==
  [n \in {t.DisplayName : t \in Range(targets)} |->
     SelectSeq(targets, LAMBDA t : t.DisplayName = n)]

\* A phase 2 that looks at the targets of every display name.
IsAnyName(tgts) == TRUE

\* Whether the targets of one display name are looked at.
IsDuplicateName(tgts) == Len(tgts) >= 2

\* Whether a target of a duplicate name is handled as empty.
IsEmptyTarget(t, active) == t.ID \notin active

\* The empty duplicate targets in the order the loops reach them: the map of
\* names is ranged over in any order, the targets of a name in fetch order.
EmptyDuplicateTargets(targets, active) ==
  LET byName == TargetsByName(targets)
      names == {n \in DOMAIN byName : IsDuplicateName(byName[n])}
  IN { Concat([i \in 1..Len(order) |->
                 SelectSeq(byName[order[i]], LAMBDA t : IsEmptyTarget(t, active))]) :
         order \in Perms(names) }

\* The remote effect of a successful DeleteTarget.
RemoveTarget(list, id) == SelectSeq(list, LAMBDA t : t.ID # id)

\* DeleteTarget fails on the remote side while the target still has projects.
DeleteTargetResults(o, id) ==
  IF \E p \in Range(worldProjects[o]) : p.TargetID = id THEN {FALSE} ELSE BOOLEAN

\* A loop that a failed fetch ends: `break`.
RestAfterBreak(todo, o, failed) == IF failed THEN {} ELSE todo \ {o}

\* The accounts still to visit after account o: a failed fetch skips the
\* account with `continue`, the loop goes on with the others.
RestAfter(todo, o, failed) == todo \ {o}

\* One iteration of `for orgID := range orgsAffected` up to the loop over the
\* targets: both fetches, activeTargets and targetsByName.
Phase2Org(o) ==
  /\ mode = "dedup"
  /\ mpc = "phase2"
  /\ p2queue = <<>>
  /\ o \in p2todo
  /\ p2org' = o
  /\ \E tf \in TargetFetches(worldTargets[o]) :
       IF tf.err
       THEN /\ log' = Append(log, [op |-> "FetchTargets", org |-> o, id |-> 0, ok |-> FALSE])
            /\ p2queue' = <<>>
       ELSE \E pf \in ProjectFetches(worldProjects[o]) :
              /\ log' = log \o << [op |-> "FetchTargets", org |-> o,
                                   id |-> Len(tf.items), ok |-> TRUE],
                                  [op |-> "FetchProjects", org |-> o,
                                   id |-> Len(pf.items), ok |-> ~pf.err] >>
              /\ IF pf.err
                 THEN p2queue' = <<>>
                 ELSE p2queue' \in EmptyDuplicateTargets(tf.items, ActiveTargets(pf.items))
  /\ p2found' = p2found \cup {<<o, p2queue'[i].ID>> : i \in 1..Len(p2queue')}
  /\ p2todo' = RestAfter(p2todo, o, ~log'[Len(log')].ok)
  /\ UNCHANGED << received, flagVars, clientVars, refreshVars, worldVars, taskVars, mpc, failedOrgs,
                  orgsWithDuplicates, phase1Vars, targetsDeleted, targetsFailed >>

\* One empty duplicate target: deleted, or reported in a dry run.
Phase2Step ==
  /\ mode = "dedup"
  /\ mpc = "phase2"
  /\ p2queue # <<>>
  /\ LET t == Head(p2queue) IN
       IF IssueDelete
       THEN \E ok \in DeleteTargetResults(p2org, t.ID) :
              /\ log' = Append(log, [op |-> "DeleteTarget", org |-> p2org,
                                     id |-> t.ID, ok |-> ok])
              /\ worldTargets' =
                   IF ok
                   THEN [worldTargets EXCEPT ![p2org] = RemoveTarget(worldTargets[p2org], t.ID)]
                   ELSE worldTargets
              /\ targetsDeleted' = IF ok THEN targetsDeleted + 1 ELSE targetsDeleted
              /\ targetsFailed' = IF ok THEN targetsFailed ELSE targetsFailed + 1
       ELSE /\ log' = Append(log, [op |-> "ReportTarget", org |-> p2org,
                                   id |-> t.ID, ok |-> TRUE])
            /\ targetsDeleted' = targetsDeleted + 1
            /\ UNCHANGED << worldTargets, targetsFailed >>
  /\ p2queue' = Tail(p2queue)
  /\ UNCHANGED << received, flagVars, clientVars, refreshVars, worldProjects, taskVars, mpc,
                  failedOrgs, orgsWithDuplicates, phase1Vars, p2todo, p2org, p2found >>

\* The phase 2 loop is over; the summary is printed.
Phase2End ==
  /\ mode = "dedup"
  /\ mpc = "phase2"
  /\ p2queue = <<>>
  /\ p2todo = {}
  /\ mpc' = "done"
  /\ UNCHANGED << received, flagVars, clientVars, refreshVars, worldVars, taskVars, failedOrgs,
                  orgsWithDuplicates, phase1Vars, phase2Vars, log >>

DedupTask(o) ==
  \/ DedupAcquire(o)
  \/ DedupScan(o)
  \/ DedupRelease(o)
  \/ DedupWgDone(o)

NextDedup ==
  \/ \E o \in Orgs : DedupTask(o)
  \/ DedupClose
  \/ DedupCollect
  \/ DedupCollectEnd
  \/ Phase1Step
  \/ Phase1End
  \/ \E o \in Orgs : Phase2Org(o)
  \/ Phase2Step
  \/ Phase2End

SpecDedup == InitDedup /\ [][NextDedup]_vars

\* ---------------------------------------------------------------- targets (origin normalizer, identity)

SCMOrigins ==
  {"github", "github-cloud-app", "github-enterprise", "bitbucket-cloud",
   "bitbucket-connect-app", "bitbucket-cloud-app", "azure-repos", "bitbucket-server"}

\* An allowlist that also admits gitlab.
IsSCMOrGitlab(origin) == origin \in SCMOrigins \cup {"gitlab"}

IsSCMOrigin(origin) == origin \in SCMOrigins

OriginToIntegrationKey(origin) ==
  IF origin = "bitbucket-cloud-app" THEN "bitbucket-connect-app" ELSE origin

\* Index of the first occurrence of character c in s, 0 when there is none.
IndexOf(s, c) ==
  IF \E i \in 1..Len(s) : s[i] = c
  THEN CHOOSE i \in 1..Len(s) : s[i] = c /\ \A j \in 1..(i - 1) : s[j] # c
  ELSE 0

\* s up to, not including, the first c (all of s when there is none).
Before(s, c) == IF IndexOf(s, c) = 0 THEN s ELSE SubSeq(s, 1, IndexOf(s, c) - 1)

EmptyTarget ==
  [Name |-> <<>>, Owner |-> <<>>, Branch |-> <<>>, ProjectKey |-> <<>>, RepoSlug |-> <<>>]

\* A key/slug target that keeps the branch hint.
KeySlugTargetWithBranch(owner, repo, branch) ==
  [EmptyTarget EXCEPT !.ProjectKey = owner, !.RepoSlug = repo, !.Branch = branch]

\* The target of the key/slug origin: the branch hint is not stored.
KeySlugTarget(owner, repo, branch) ==
  [EmptyTarget EXCEPT !.ProjectKey = owner, !.RepoSlug = repo]

\* The target of a path-style origin; an empty hint leaves the branch empty.
PathTarget(owner, repo, branch) ==
  [EmptyTarget EXCEPT !.Owner = owner, !.Name = repo, !.Branch = branch]

\* ProjectToTarget(name, origin, branch) -> (Target, ok)
ProjectToTarget(name, origin, branch) ==
  IF ~IsSCMOrigin(origin) \/ IndexOf(name, "/") = 0
  THEN [ok |-> FALSE, target |-> EmptyTarget]
  ELSE LET owner == Before(name, "/")
           rest == SubSeq(name, IndexOf(name, "/") + 1, Len(name))
           repo == Before(Before(rest, ":"), "(")
       IN IF origin = "bitbucket-server"
          THEN [ok |-> TRUE, target |-> KeySlugTarget(owner, repo, branch)]
          ELSE [ok |-> TRUE, target |-> PathTarget(owner, repo, branch)]

RECURSIVE Join(_)
Join(parts) ==
  IF Len(parts) = 1 THEN parts[1] ELSE parts[1] \o <<":">> \o Join(Tail(parts))

\* An identity that leaves the account out.
TargetIDWithoutOrg(orgID, integrationID, target) ==
  IF target.ProjectKey # <<>> \/ target.RepoSlug # <<>>
  THEN Join(<<integrationID, target.ProjectKey, target.RepoSlug>>)
  ELSE Join(<<integrationID, target.Name, target.Owner, target.Branch>>)

\* TargetID(orgID, integrationID, target): the fields joined with ":".
TargetID(orgID, integrationID, target) ==
  IF target.ProjectKey # <<>> \/ target.RepoSlug # <<>>
  THEN Join(<<orgID, integrationID, target.ProjectKey, target.RepoSlug>>)
  ELSE Join(<<orgID, integrationID, target.Name, target.Owner, target.Branch>>)

\* ---------------------------------------------------------------- manifest run

\* A string-keyed map as a function: the entries of add written into m.
MapMerge(m, add) ==
  [x \in (DOMAIN m) \cup (DOMAIN add) |-> IF x \in DOMAIN add THEN add[x] ELSE m[x]]

\* An account ID as a string.
Str(o) == <<o>>

\* res.orgMeta: the account's metadata, stored when it has a name or a slug.
OrgMetaOf(o) ==
  IF OrgName(o) # <<>> \/ OrgSlug(o) # <<>>
  THEN [x \in {o} |-> [Name |-> OrgName(o), Slug |-> OrgSlug(o)]]
  ELSE <<>>

\* res.intMeta: integration ID -> integration type. When two types carry the
\* same ID, the one ranged over last stays.
IntMetaOf(integrations) ==
  LET ids == {integrations[k] : k \in DOMAIN integrations}
  IN {f \in [ids -> DOMAIN integrations] : \A id \in ids : integrations[f[id]] = id}

\* A derivation that drops no target identity.
NeverSeen(seen, tid) == FALSE

\* Whether a target identity that was seen before is dropped.
AlreadySeen(seen, tid) == tid \in seen

\* A derivation that puts a new entry in front of the entries so far.
AddTargetInFront(targets, entry) == <<entry>> \o targets

\* res.targets = append(res.targets, refreshTargetWithMeta{...})
AddTarget(targets, entry) == Append(targets, entry)

\* The loop over the projects of one account (`for _, p := range projects`),
\* from project i on: the import targets and the count of gitlab projects.
RECURSIVE DeriveLoop(_, _, _, _, _, _, _)
DeriveLoop(o, integrations, projects, i, seen, targets, gitlabSkipped) ==
  IF i > Len(projects) THEN [targets |-> targets, gitlabCount |-> gitlabSkipped]
  ELSE
    LET p == projects[i]
        intKey == OriginToIntegrationKey(p.Origin)
        integrationID == IF intKey \in DOMAIN integrations THEN integrations[intKey] ELSE <<>>
        branch == IF p.Branch = <<>> THEN p.TargetReference ELSE p.Branch
        conv == ProjectToTarget(p.Name, p.Origin, branch)
        tid == TargetID(Str(o), integrationID, conv.target)
        skip == DeriveLoop(o, integrations, projects, i + 1, seen, targets, gitlabSkipped)
    IN IF p.Origin = "gitlab"
       THEN DeriveLoop(o, integrations, projects, i + 1, seen, targets, gitlabSkipped + 1)
       ELSE IF ~IsSCMOrigin(p.Origin) THEN skip
       ELSE IF integrationType # "" /\ p.Origin # integrationType
               /\ OriginToIntegrationKey(p.Origin) # integrationType THEN skip
       ELSE IF integrationID = <<>> THEN skip
       ELSE IF ~conv.ok THEN skip
       ELSE IF AlreadySeen(seen, tid) THEN skip
       ELSE DeriveLoop(o, integrations, projects, i + 1, seen \cup {tid},
                       AddTarget(targets, [Target |-> conv.target, OrgID |-> o,
                                           IntegrationID |-> integrationID]),
                       gitlabSkipped)

DeriveTargets(o, integrations, projects) ==
  DeriveLoop(o, integrations, projects, 1, {}, <<>>, 0)

RefreshAcquire(o) ==
  /\ mode = "refresh"
  /\ pc[o] = "wait"
  /\ CanAcquire
  /\ sem' = sem + 1
  /\ pc' = [pc EXCEPT ![o] = "run"]
  /\ UNCHANGED << received, flagVars, clientVars, refreshVars, dedupVars, worldVars, wg, results,
                  closed, taskRes, fetched, mpc, failedOrgs >>

\* A first subfetch goroutine that also writes the variables of the second.
StoreIntegrationsAndProjects(locals, f) == [int |-> f, proj |-> NoResult]

\* The assignment of the first subfetch goroutine: it writes integrations and
\* intErr and no other local of the task.
StoreIntegrations(locals, f) == [locals EXCEPT !.int = f]

\* The first subfetch goroutine: integrations, intErr = ListIntegrations(...)
RefreshListIntegrations(o) ==
  /\ mode = "refresh"
  /\ pc[o] = "run"
  /\ sub[o].int = NoResult
  /\ \E f \in IntegrationFetches(o) : sub' = [sub EXCEPT ![o] = StoreIntegrations(sub[o], f)]
  /\ UNCHANGED << received, flagVars, clientVars, out, processedOrgs, dedupVars, worldVars, taskVars,
                  mpc, failedOrgs >>

\* The second subfetch goroutine: projects, projErr = FetchProjects(...)
RefreshFetchProjects(o) ==
  /\ mode = "refresh"
  /\ pc[o] = "run"
  /\ sub[o].proj = NoResult
  /\ \E f \in ProjectFetches(worldProjects[o]) :
       /\ sub' = [sub EXCEPT ![o].proj = f]
       /\ fetched' = [fetched EXCEPT ![o] = f]
  /\ UNCHANGED << received, flagVars, clientVars, out, processedOrgs, dedupVars, worldVars, pc, sem,
                  wg, results, closed, taskRes, mpc, failedOrgs >>

\* innerWg.Wait() has returned when both subfetches are done.
Joined(o) == sub[o].int # NoResult /\ sub[o].proj # NoResult

\* A task that looks at the error of the leaf fetch only.
ProjectsFailed(o) == sub[o].proj.err

\* Whether the task reports a failure after the join.
TaskFails(o) == sub[o].int.err \/ sub[o].proj.err

\* The task after the join: the error checks, the derivation of the import
\* targets, and the send of the result. The locals of the subfetches are not
\* used afterwards.
RefreshDerive(o) ==
  /\ mode = "refresh"
  /\ pc[o] = "run"
  /\ Joined(o)
  /\ \E res \in
       IF TaskFails(o)
       THEN {[orgID |-> o, err |-> TRUE, targets |-> <<>>, orgMeta |-> OrgMetaOf(o),
              intMeta |-> <<>>, gitlabCount |-> 0]}
       ELSE LET d == DeriveTargets(o, sub[o].int.data, sub[o].proj.items)
            IN {[orgID |-> o, err |-> FALSE, targets |-> d.targets,
                 orgMeta |-> OrgMetaOf(o), intMeta |-> im,
                 gitlabCount |-> d.gitlabCount] : im \in IntMetaOf(sub[o].int.data)} :
       /\ results' = Append(results, res)
       /\ taskRes' = [taskRes EXCEPT ![o] = res]
  /\ pc' = [pc EXCEPT ![o] = "sent"]
  /\ sub' = [sub EXCEPT ![o] = [int |-> NoResult, proj |-> NoResult]]
  /\ UNCHANGED << received, flagVars, clientVars, out, processedOrgs, dedupVars, worldVars, sem, wg,
                  closed, fetched, mpc, failedOrgs >>

RefreshRelease(o) ==
  /\ mode = "refresh"
  /\ pc[o] = "sent"
  /\ sem' = Released(sem)
  /\ pc' = [pc EXCEPT ![o] = "released"]
  /\ UNCHANGED << received, flagVars, clientVars, refreshVars, dedupVars, worldVars, wg, results,
                  closed, taskRes, fetched, mpc, failedOrgs >>

RefreshWgDone(o) ==
  /\ mode = "refresh"
  /\ pc[o] = "released"
  /\ wg' = wg - 1
  /\ pc' = [pc EXCEPT ![o] = "done"]
  /\ UNCHANGED << received, flagVars, clientVars, refreshVars, dedupVars, worldVars, sem, results,
                  closed, taskRes, fetched, mpc, failedOrgs >>

RefreshClose ==
  /\ mode = "refresh"
  /\ wg = 0
  /\ ~closed
  /\ closed' = TRUE
  /\ UNCHANGED << received, flagVars, clientVars, refreshVars, dedupVars, worldVars, pc, sem, wg,
                  results, taskRes, fetched, mpc, failedOrgs >>

\* A collector that merges the results of failed tasks too.
SkipsNothing(res) == FALSE

\* What the collector does with a result whose err is set: `continue`.
SkipsResult(res) == res.err

\* One iteration of `for res := range results`.
RefreshCollect ==
  /\ mode = "refresh"
  /\ mpc = "collect"
  /\ results # <<>>
  /\ LET res == Head(results) IN
       /\ failedOrgs' = IF res.err THEN failedOrgs + 1 ELSE failedOrgs
       /\ IF SkipsResult(res)
          THEN UNCHANGED << out, processedOrgs >>
          ELSE /\ processedOrgs' = processedOrgs + 1
               /\ out' = [Targets |-> out.Targets \o res.targets,
                          Orgs |-> MapMerge(out.Orgs, res.orgMeta),
                          Integrations |-> MapMerge(out.Integrations, res.intMeta)]
  /\ results' = Tail(results)
  /\ received' = Append(received, Head(results).orgID)
  /\ UNCHANGED << flagVars, clientVars, sub, dedupVars, worldVars, pc, sem, wg, closed, taskRes,
                  fetched, mpc >>

\* The range loop ends when the channel is closed and drained; the output is
\* written.
RefreshCollectEnd ==
  /\ mode = "refresh"
  /\ mpc = "collect"
  /\ RangeDone
  /\ mpc' = "done"
  /\ UNCHANGED << received, flagVars, clientVars, refreshVars, dedupVars, worldVars, taskVars,
                  failedOrgs >>

LeafKindsRefresh ==
  [Name : Names, Origin : {"github", "bitbucket-server", "gitlab"},
   Branch : {<<>>}, TargetReference : {<<"m">>}, Created : {<<0, 9>>},
   TargetID : {"t1"}]

InitRefresh ==
  /\ mode = "refresh"
  /\ doDelete = FALSE
  /\ concurrency \in 0..MaxConcurrency
  /\ integrationType \in {"", "github"}
  /\ \E n \in 0..MaxRich :
       \E owner \in Owners(n), kind \in [1..n -> LeafKindsRefresh] :
         /\ Canonical(n, owner, kind)
         /\ worldProjects = [o \in Orgs |-> OrgProjects(o, n, owner, kind)]
  /\ worldTargets = [o \in Orgs |-> ParentWorld]
  /\ InitTasks
  /\ InitClientIdle
  /\ mpc = "collect"
  /\ failedOrgs = 0
  /\ sub = [o \in Orgs |-> [int |-> NoResult, proj |-> NoResult]]
  /\ out = EmptyOutput
  /\ processedOrgs = 0
  /\ orgsWithDuplicates = <<>>
  /\ p1 = <<1, 1, 1>>
  /\ totalDuplicates = 0 /\ totalDeleted = 0 /\ totalFailed = 0
  /\ orgsAffected = {}
  /\ p2todo = {} /\ p2org = "" /\ p2queue = <<>> /\ p2found = {}
  /\ targetsDeleted = 0 /\ targetsFailed = 0
  /\ log = <<>>

RefreshTask(o) ==
  \/ RefreshAcquire(o)
  \/ RefreshListIntegrations(o)
  \/ RefreshFetchProjects(o)
  \/ RefreshDerive(o)
  \/ RefreshRelease(o)
  \/ RefreshWgDone(o)

NextRefresh ==
  \/ \E o \in Orgs : RefreshTask(o)
  \/ RefreshClose
  \/ RefreshCollect
  \/ RefreshCollectEnd

SpecRefresh == InitRefresh /\ [][NextRefresh]_vars

\* ---------------------------------------------------------------- API client on its own

\* Hosts next to the API host: a subdomain of it, a host that only ends in
\* its name, and an unrelated host.
SubHost == <<"e", ".">> \o ApiHost
SuffixHost == <<"x">> \o ApiHost
OtherHost == <<"b", ".", "i", "o">>

\* The path and query of a request name the page it asks for.
PageChars == <<"1", "2", "3", "4", "5", "6", "7", "8", "9">>
PathTo(i) == <<"/", PageChars[i]>>
Cursor(url) == CHOOSE i \in 1..Len(PageChars) : PageChars[i] = url[Len(url)]

\* The continuation references a server may send, by their parts: none, a
\* root-relative path, a path that begins with "//" and a host, a host without
\* a scheme, a string that is no URL, an absolute URL with a query, and
\* absolute URLs of every scheme, user information, host and port.
UrlCases ==
  [kind : {"abs"}, scheme : {Https, Http}, user : {<<>>, ApiHost},
   host : {ApiHost, SubHost, SuffixHost, OtherHost}, port : {<<>>, <<"8">>}]
  \cup [kind : {"empty", "rel", "bad"}, scheme : {<<>>}, user : {<<>>},
        host : {<<>>}, port : {<<>>}]
  \cup [kind : {"net"}, scheme : {<<>>}, user : {<<>>}, host : {OtherHost}, port : {<<>>}]
  \cup [kind : {"bare"}, scheme : {<<>>}, user : {<<>>}, host : {ApiHost}, port : {<<>>}]
  \cup [kind : {"query"}, scheme : {Https}, user : {<<>>}, host : {OtherHost}, port : {<<>>}]

\* The string of reference c to page i.
Build(c, i) ==
  LET authority == (IF c.user = <<>> THEN <<>> ELSE c.user \o <<"@">>) \o c.host
                     \o (IF c.port = <<>> THEN <<>> ELSE <<":">> \o c.port)
  IN CASE c.kind = "empty" -> <<>>
       [] c.kind = "rel" -> PathTo(i)
       [] c.kind = "net" -> <<"/", "/">> \o c.host \o PathTo(i)
       [] c.kind = "bare" -> c.host \o PathTo(i)
       [] c.kind = "bad" -> <<":">> \o PathTo(i)
       [] c.kind = "query" ->
            c.scheme \o <<":", "/", "/">> \o c.host \o <<"?">> \o ApiHost \o PathTo(i)
       [] c.kind = "abs" -> c.scheme \o <<":", "/", "/">> \o authority \o PathTo(i)

\* The raw leaf record and the parent record on page i.
ClientProject(i) ==
  MkProject(i, [Name |-> NameOrder[1], Origin |-> "github", Branch |-> <<>>,
                TargetReference |-> <<"m">>, Created |-> <<0, 9>>, TargetID |-> "t1"])

PageRecord(f, i) == IF f = "FetchProjects" THEN ClientProject(i) ELSE ParentWorld[i]

\* What the remote API may answer to the request for page i of a link-based
\* fetcher: a 404, a 500, or a 200 with or without a record and with any
\* reference to page i + 1.
LinkPage(f, i) ==
  {[status |-> st, data |-> <<>>, next |-> NoRef] : st \in {404, 500}}
  \cup {[status |-> 200, data |-> d, next |-> Build(c, i + 1)] :
          d \in {<<>>, <<PageRecord(f, i)>>}, c \in UrlCases}

RECURSIVE LinkPagesFrom(_, _, _)
LinkPagesFrom(f, i, n) ==
  IF i > n THEN {<<>>}
  ELSE {<<a>> \o t : a \in LinkPage(f, i), t \in LinkPagesFrom(f, i + 1, n)}

LinkScripts(f) == UNION {LinkPagesFrom(f, 1, n) : n \in 1..MaxPages}

\* The answer to a request of a link-based fetcher: a page the remote API
\* does not hold is not found.
Answer(url) ==
  IF Cursor(url) \in 1..Len(server) THEN server[Cursor(url)]
  ELSE [status |-> 404, data |-> <<>>, next |-> NoRef]

\* perPage := 100
perPage == 100

\* What the remote API may answer to the request for page p of the account
\* listing: a 404, a 500, or a 200 with no, one, perPage - 1 or perPage records.
OrgPage(p) ==
  {[status |-> st, data |-> <<>>] : st \in {404, 500}}
  \cup {[status |-> 200, data |-> [i \in 1..n |-> [ID |-> <<p, i>>]]] :
          n \in {0, 1, perPage - 1, perPage}}

RECURSIVE OrgPagesFrom(_, _)
OrgPagesFrom(p, n) ==
  IF p > n THEN {<<>>}
  ELSE {<<a>> \o t : a \in OrgPage(p), t \in OrgPagesFrom(p + 1, n)}

OrgScripts == UNION {OrgPagesFrom(1, n) : n \in 1..MaxOrgPages}

\* A page after the last one the remote API holds is empty.
OrgAnswer(p) ==
  IF p \in 1..Len(server) THEN server[p] ELSE [status |-> 200, data |-> <<>>]

\* A client that goes on after a page that is not full.
IsEmptyPage(n) == n = 0

\* len(response.Orgs) < perPage
IsLastPage(n) == n < perPage

runVars ==
  << flagVars, refreshVars, dedupVars, worldVars, taskVars, received, mpc, failedOrgs >>

\* One iteration of the loop of FetchProjects, with the return that follows
\* the loop when nextURL is left empty.
FetchProjectsStep ==
  /\ mode = "client" /\ fn = "FetchProjects"
  /\ ret = NoResult /\ nextURL # <<>>
  /\ requests' = Append(requests, nextURL)
  /\ LET r == Answer(nextURL) IN
       IF r.status = 404
       THEN /\ ret' = [err |-> FALSE, items |-> allRecords]
            /\ UNCHANGED << nextURL, allRecords, checks >>
       ELSE IF r.status # 200
       THEN /\ ret' = FetchError
            /\ UNCHANGED << nextURL, allRecords, checks >>
       ELSE LET projects == Gather(allRecords, DecodeProjects(r.data)) IN
            /\ allRecords' = projects
            /\ checks' = IF r.next = <<>> THEN checks
                         ELSE checks \cup {[url |-> r.next, host |-> apiHost,
                                            ok |-> isAllowedNextURL(r.next, apiHost)]}
            /\ nextURL' = FollowedURL(r.next)
            /\ ret' = IF nextURL' = <<>> THEN [err |-> FALSE, items |-> projects] ELSE ret
  /\ UNCHANGED << runVars, fn, server, page, calls >>

\* One iteration of the loop of FetchTargets, with the return that follows it.
FetchTargetsStep ==
  /\ mode = "client" /\ fn = "FetchTargets"
  /\ ret = NoResult /\ nextURL # <<>>
  /\ requests' = Append(requests, nextURL)
  /\ LET r == Answer(nextURL) IN
       IF r.status = 404
       THEN /\ ret' = [err |-> FALSE, items |-> allRecords]
            /\ UNCHANGED << nextURL, allRecords, checks >>
       ELSE IF r.status # 200
       THEN /\ ret' = FetchError
            /\ UNCHANGED << nextURL, allRecords, checks >>
       ELSE LET targets == Gather(allRecords, r.data) IN
            /\ allRecords' = targets
            /\ checks' = IF r.next = <<>> THEN checks
                         ELSE checks \cup {[url |-> r.next, host |-> apiHost,
                                            ok |-> isAllowedNextURL(r.next, apiHost)]}
            /\ nextURL' = FollowedURL(r.next)
            /\ ret' = IF nextURL' = <<>> THEN [err |-> FALSE, items |-> targets] ELSE ret
  /\ UNCHANGED << runVars, fn, server, page, calls >>

\* One iteration of the loop of FetchOrgs, with the return that follows it.
FetchOrgsStep ==
  /\ mode = "client" /\ fn = "FetchOrgs"
  /\ ret = NoResult
  /\ requests' = Append(requests, [page |-> page, perPage |-> perPage])
  /\ LET r == OrgAnswer(page) IN
       IF r.status # 200
       THEN /\ ret' = FetchError
            /\ UNCHANGED << page, allRecords >>
       ELSE LET allOrgs == Gather(allRecords, r.data) IN
            /\ allRecords' = allOrgs
            /\ IF IsLastPage(Len(r.data))
               THEN ret' = [err |-> FALSE, items |-> allOrgs] /\ UNCHANGED page
               ELSE page' = page + 1 /\ UNCHANGED ret
  /\ UNCHANGED << runVars, fn, server, nextURL, checks, calls >>

\* A call of isAllowedNextURL with the reference in nextURL and a host.
IsAllowedNextURLCall ==
  /\ mode = "client" /\ fn = "isAllowedNextURL"
  /\ ret = NoResult
  /\ \E allowedHost \in {ApiHost, SubHost} :
       LET ok == isAllowedNextURL(nextURL, allowedHost) IN
         /\ checks' = checks \cup {[url |-> nextURL, host |-> allowedHost, ok |-> ok]}
         /\ ret' = [err |-> FALSE, items |-> <<ok>>]
  /\ UNCHANGED << runVars, fn, server, nextURL, page, allRecords, requests, calls >>

InitClient ==
  /\ mode = "client"
  /\ doDelete = FALSE
  /\ concurrency = 1
  /\ worldProjects = [o \in Orgs |-> <<>>]
  /\ worldTargets = [o \in Orgs |-> ParentWorld]
  /\ InitTasks
  /\ mpc = "collect"
  /\ failedOrgs = 0
  /\ InitRefreshIdle
  /\ orgsWithDuplicates = <<>>
  /\ p1 = <<1, 1, 1>>
  /\ totalDuplicates = 0 /\ totalDeleted = 0 /\ totalFailed = 0
  /\ orgsAffected = {}
  /\ p2todo = {} /\ p2org = "" /\ p2queue = <<>> /\ p2found = {}
  /\ targetsDeleted = 0 /\ targetsFailed = 0
  /\ log = <<>>
  /\ \/ /\ fn \in {"FetchProjects", "FetchTargets"}
        /\ server \in LinkScripts(fn)
        /\ nextURL = baseURL \o PathTo(1)
     \/ /\ fn = "FetchOrgs"
        /\ server \in OrgScripts
        /\ nextURL = <<>>
     \/ /\ fn = "isAllowedNextURL"
        /\ server = <<>>
        /\ nextURL \in {Build(c, 1) : c \in UrlCases}
  /\ page = IF fn = "FetchOrgs" THEN 1 ELSE 0
  /\ allRecords = <<>>
  /\ requests = <<>>
  /\ checks = {}
  /\ ret = NoResult
  /\ calls = <<>>

NextClient ==
  \/ FetchProjectsStep
  \/ FetchTargetsStep
  \/ FetchOrgsStep
  \/ IsAllowedNextURLCall

SpecClient == InitClient /\ [][NextClient]_vars

\* ---------------------------------------------------------------- targets package on its own

\* Composite names: well-formed, with a parenthetical decoration after the
\* repo, with a colon in the owner part, and without a "/".
TargetNames ==
  { <<"o", "/", "r", ":", "p">>,
    <<"o", "/", "r", "(", "b", ")", ":", "p">>,
    <<"o", ":", "x", "/", "r", ":", "p">>,
    <<"r", ":", "p">> }

\* The origin tags: the supported ones, gitlab, an unlisted one, the empty one.
TargetOrigins == SCMOrigins \cup {"gitlab", "cli", ""}

\* Branch hints: none, a plain one, one with a colon.
BranchHints == { <<>>, <<"m">>, <<"x", ":", "m">> }

AccountIDs == { <<"a">>, <<"b">> }
ConnectorIDs == { <<"i">>, <<"j">> }

\* The targets ProjectToTarget returns for these inputs.
TargetValues ==
  { ProjectToTarget(c[1], c[2], c[3]).target :
      c \in { d \in TargetNames \X TargetOrigins \X BranchHints :
                ProjectToTarget(d[1], d[2], d[3]).ok } }

\* internal.ProjectToTarget(p.Name, p.Origin, branch)
ProjectToTargetCall ==
  /\ mode = "targets"
  /\ Len(calls) < MaxCalls
  /\ \E name \in TargetNames, origin \in TargetOrigins, branch \in BranchHints :
       calls' = Append(calls, [fn |-> "ProjectToTarget",
                               args |-> <<name, origin, branch>>,
                               ret |-> ProjectToTarget(name, origin, branch)])
  /\ UNCHANGED << runVars, fn, server, nextURL, page, allRecords, requests, checks, ret >>

\* internal.TargetID(o.ID, integrationID, target)
TargetIDCall ==
  /\ mode = "targets"
  /\ Len(calls) < MaxCalls
  /\ \E orgID \in AccountIDs, integrationID \in ConnectorIDs, target \in TargetValues :
       calls' = Append(calls, [fn |-> "TargetID",
                               args |-> <<orgID, integrationID, target>>,
                               ret |-> TargetID(orgID, integrationID, target)])
  /\ UNCHANGED << runVars, fn, server, nextURL, page, allRecords, requests, checks, ret >>

InitTargets ==
  /\ mode = "targets"
  /\ doDelete = FALSE
  /\ concurrency = 1
  /\ worldProjects = [o \in Orgs |-> <<>>]
  /\ worldTargets = [o \in Orgs |-> ParentWorld]
  /\ InitTasks
  /\ InitClientIdle
  /\ mpc = "collect"
  /\ failedOrgs = 0
  /\ InitRefreshIdle
  /\ orgsWithDuplicates = <<>>
  /\ p1 = <<1, 1, 1>>
  /\ totalDuplicates = 0 /\ totalDeleted = 0 /\ totalFailed = 0
  /\ orgsAffected = {}
  /\ p2todo = {} /\ p2org = "" /\ p2queue = <<>> /\ p2found = {}
  /\ targetsDeleted = 0 /\ targetsFailed = 0
  /\ log = <<>>

NextTargets ==
  \/ ProjectToTargetCall
  \/ TargetIDCall

SpecTargets == InitTargets /\ [][NextTargets]_vars

\* ---------------------------------------------------------------- both runs

\* main(): the cleanup run when os.Args[1] is "dedup", else the manifest run.
Init == InitDedup \/ InitRefresh

Next == NextDedup \/ NextRefresh

Spec == Init /\ [][Next]_vars

\* The account tasks, the closer and the collector of both runs, up to the end
\* of the collector's loop, over the worlds of at most MaxLive leaf records.
WorldSize == Len(Concat([i \in 1..Len(OrgOrder) |-> worldProjects[OrgOrder[i]]]))

InitScan == Init /\ WorldSize <= MaxLive

NextScan ==
  \/ \E o \in Orgs : DedupTask(o)
  \/ DedupClose
  \/ DedupCollect
  \/ DedupCollectEnd
  \/ \E o \in Orgs : RefreshTask(o)
  \/ RefreshClose
  \/ RefreshCollect
  \/ RefreshCollectEnd

\* The Go scheduler runs a goroutine that can take a step: the program does
\* not stop while some goroutine is runnable.
FairSpec == InitScan /\ [][NextScan]_vars /\ WF_vars(NextScan)

\* ---------------------------------------------------------------- properties

\* The log entries of the given kinds.
Entries(ops) == {i \in 1..Len(log) : log[i].op \in ops}

\* The account tasks that have sent a result, with success or with an error.
Succeeded == {o \in Orgs : taskRes[o] # NoResult /\ ~taskRes[o].err}
Failed == {o \in Orgs : taskRes[o] # NoResult /\ taskRes[o].err}

\* C1: in a dry run (the delete flag is not set) the cleanup run issues no
\* DeleteProject and no DeleteTarget call; candidates are only reported.
DryRunIssuesNoDelete ==
  (mode = "dedup" /\ ~doDelete) =>
    /\ Entries({"DeleteProject", "DeleteTarget"}) = {}
    /\ totalDeleted = 0 /\ totalFailed = 0 /\ targetsFailed = 0

\* A finished dry run that has reported a duplicate project and an empty
\* duplicate target.
DryRunReported ==
  /\ mode = "dedup" /\ ~doDelete /\ mpc = "done"
  /\ Entries({"ReportProject"}) # {}
  /\ Entries({"ReportTarget"}) # {}

\* The records of a name among the records a task fetched.
FetchedOfName(o, name) == {p \in Range(fetched[o].items) : p.Name = name}

\* C2: every duplicate group holds exactly the fetched records of one name that
\* at least two records share, its record at index 0 has the earliest creation
\* time and is never submitted for deletion, and once phase 1 is over every
\* other record of the group has been submitted (deleted, or reported in a dry
\* run), whatever the order the records were fetched in.
OldestIsKept ==
  \A o \in Succeeded :
    LET groups == taskRes[o].groups IN
      /\ {groups[i].key : i \in 1..Len(groups)} =
           {n \in {p.Name : p \in Range(fetched[o].items)} :
              Cardinality(FetchedOfName(o, n)) >= 2}
      /\ \A i \in 1..Len(groups) :
           LET projs == groups[i].projects IN
             /\ Range(projs) = FetchedOfName(o, groups[i].key)
             /\ Len(projs) = Cardinality(Range(projs))
             /\ \A k \in 1..Len(projs) :
                  TimeOf(projs[1].Created) <= TimeOf(projs[k].Created)
             /\ \A e \in Entries({"DeleteProject", "ReportProject"}) :
                  ~(log[e].org = o /\ log[e].id = projs[1].ID)
             /\ mpc \in {"phase2", "done"} =>
                  \A k \in 2..Len(projs) :
                    \E e \in Entries({"DeleteProject", "ReportProject"}) :
                      log[e].org = o /\ log[e].id = projs[k].ID

\* A finished delete run in which the record fetched first was the newer one
\* of its group, and was the one deleted.
NewerFetchedFirstIsDeleted ==
  /\ mode = "dedup" /\ doDelete /\ mpc = "done"
  /\ \E o \in Succeeded :
       /\ Len(fetched[o].items) >= 2
       /\ fetched[o].items[1].Name = fetched[o].items[2].Name
       /\ TimeOf(fetched[o].items[2].Created) < TimeOf(fetched[o].items[1].Created)
       /\ \E e \in Entries({"DeleteProject"}) :
            log[e].org = o /\ log[e].id = fetched[o].items[1].ID /\ log[e].ok

\* C3: a DeleteTarget call is issued only for a parent record that no leaf
\* record still present in the account references.
DeleteTargetOnlyUnreferenced ==
  \A e \in Entries({"DeleteTarget"}) :
    ~\E p \in Range(worldProjects[log[e].org]) : p.TargetID = log[e].id

\* The account tasks that hold a permit: acquired and not yet released.
Holders == {o \in Orgs : pc[o] \in {"run", "sent"}}

\* C4: in the manifest run and in the cleanup scan the number of account
\* tasks that have acquired the permit and not yet released it is at most the
\* concurrency limit.
PermitsWithinLimit ==
  /\ Cardinality(Holders) <= concurrency
  /\ sem = Cardinality(Holders)

\* The limit binds: with a limit of 1 one task holds the permit while another
\* task waits for it.
OneHoldsOneWaits ==
  /\ concurrency = 1
  /\ \E o, q \in Orgs : pc[o] = "run" /\ pc[q] = "wait"

\* The accounts of which something is in the aggregate output of either run.
MergedOrgs ==
  {out.Targets[i].OrgID : i \in 1..Len(out.Targets)}
    \cup (DOMAIN out.Orgs)
    \cup {o \in Orgs : \E k \in DOMAIN IntegrationsOf(o) :
                          IntegrationsOf(o)[k] # <<>>
                          /\ IntegrationsOf(o)[k] \in DOMAIN out.Integrations}
    \cup {orgsWithDuplicates[i].orgID : i \in 1..Len(orgsWithDuplicates)}

\* C5: nothing of an account whose task failed is merged into the aggregate
\* output (no manifest entry, no account metadata, no connector metadata, no
\* duplicate group), the failure tally counts every failed result the
\* collector has received exactly once, and when the collector has ended the
\* tally is the number of failed account tasks.
FailedContributeNothing ==
  /\ MergedOrgs \cap Failed = {}
  /\ failedOrgs = Cardinality({i \in 1..Len(received) : received[i] \in Failed})
  /\ mpc # "collect" => failedOrgs = Cardinality(Failed)

\* A finished manifest run in which one task failed with its account metadata
\* set and another task produced manifest entries.
OneFailedOneMerged ==
  /\ mode = "refresh" /\ mpc = "done"
  /\ \E o \in Failed : taskRes[o].orgMeta # <<>>
  /\ failedOrgs = 1
  /\ out.Targets # <<>>

\* Whether everything the task of account o produced is in the aggregate
\* output.
Merged(o) ==
  IF mode = "refresh"
  THEN /\ \A i \in 1..Len(taskRes[o].targets) :
            \E j \in 1..Len(out.Targets) : out.Targets[j] = taskRes[o].targets[i]
       /\ \A k \in DOMAIN taskRes[o].orgMeta :
            k \in DOMAIN out.Orgs /\ out.Orgs[k] = taskRes[o].orgMeta[k]
       /\ DOMAIN taskRes[o].intMeta \subseteq DOMAIN out.Integrations
  ELSE \A i \in 1..Len(taskRes[o].groups) :
         \E j \in 1..Len(orgsWithDuplicates) :
           /\ orgsWithDuplicates[j].orgID = o
           /\ orgsWithDuplicates[j].groups[i] = taskRes[o].groups[i]

\* C6: a failing account task neither blocks nor cancels its siblings: when
\* the collector has ended every task has delivered its result, and the
\* aggregate output holds every manifest entry (duplicate group) of every task
\* that succeeded, whichever tasks failed.
SucceededAreMerged ==
  /\ \A o \in Succeeded : (\E i \in 1..Len(received) : received[i] = o) => Merged(o)
  /\ mpc # "collect" =>
       /\ Failed \cup Succeeded = Orgs
       /\ \A o \in Succeeded : Merged(o)

\* The collector has ended after the result of a failed task was received
\* first and the result of a task with manifest entries after it.
FailedFirstThenMerged ==
  /\ mode = "refresh" /\ mpc = "done"
  /\ Len(received) = 2
  /\ received[1] \in Failed
  /\ received[2] \in Succeeded
  /\ taskRes[received[2]].targets # <<>>

\* Whether the fetched record p of account o yields the manifest entry e.
Yields(o, p, e) ==
  LET conv == ProjectToTarget(p.Name, p.Origin, p.Branch)
      key == OriginToIntegrationKey(p.Origin)
  IN /\ p.Origin # "gitlab"
     /\ conv.ok
     /\ key \in DOMAIN IntegrationsOf(o)
     /\ e = [Target |-> conv.target, OrgID |-> o, IntegrationID |-> IntegrationsOf(o)[key]]

\* Position of the first fetched record of account o that yields e.
FirstYield(o, e) ==
  CHOOSE i \in 1..Len(fetched[o].items) :
    /\ Yields(o, fetched[o].items[i], e)
    /\ \A j \in 1..(i - 1) : ~Yields(o, fetched[o].items[j], e)

\* C8: no two entries of the manifest have the same (account, connector,
\* target); the entries of an account come from its fetched records, one per
\* triple, in the order in which the triples are first seen.
ManifestEntriesUnique ==
  /\ \A i, j \in 1..Len(out.Targets) : i # j => out.Targets[i] # out.Targets[j]
  /\ \A o \in Succeeded :
       mode = "refresh" =>
         LET ts == taskRes[o].targets IN
           /\ \A i \in 1..Len(ts) :
                \E k \in 1..Len(fetched[o].items) : Yields(o, fetched[o].items[k], ts[i])
           /\ \A i, j \in 1..Len(ts) :
                i < j => FirstYield(o, ts[i]) < FirstYield(o, ts[j])

\* A finished manifest run in which two fetched records of one account yield
\* the same triple and the manifest holds it.
SameTripleTwice ==
  /\ mode = "refresh" /\ mpc = "done"
  /\ \E o \in Succeeded :
       /\ Len(fetched[o].items) = 2
       /\ \E e \in Range(out.Targets) :
            Yields(o, fetched[o].items[1], e) /\ Yields(o, fetched[o].items[2], e)

\* The removal candidates of phase 1 as <<account, project ID>>: the records
\* after the first of every collected duplicate group.
ProjectCandidates ==
  UNION {UNION {{<<orgsWithDuplicates[i].orgID, orgsWithDuplicates[i].groups[g].projects[k].ID>> :
                   k \in 2..Len(orgsWithDuplicates[i].groups[g].projects)} :
                g \in 1..Len(orgsWithDuplicates[i].groups)} :
         i \in 1..Len(orgsWithDuplicates)}

\* The log entries about one record.
EntriesAbout(ops, o, id) == {e \in Entries(ops) : log[e].org = o /\ log[e].id = id}

Phase1Ops == {"DeleteProject", "ReportProject"}
Phase2Ops == {"FetchTargets", "FetchProjects", "DeleteTarget", "ReportTarget"}

\* C9: no phase 2 step of an account (fetch of its parent records, re-fetch
\* of its leaf records, delete of a parent record) comes before a phase 1
\* attempt of that account: every candidate of the account has been attempted
\* before the account's first phase 2 step, and none is attempted after it.
Phase1BeforePhase2 ==
  \A e \in Entries(Phase2Ops) :
    /\ \A c \in ProjectCandidates :
         c[1] = log[e].org => \E f \in EntriesAbout(Phase1Ops, c[1], c[2]) : f < e
    /\ \A f \in Entries(Phase1Ops) : log[f].org = log[e].org => f < e

\* A finished delete run in which an account with two candidates had a parent
\* record deleted.
TwoCandidatesThenTargetDeleted ==
  /\ mode = "dedup" /\ doDelete /\ mpc = "done"
  /\ \E e \in Entries({"DeleteTarget"}) :
       Cardinality({c \in ProjectCandidates : c[1] = log[e].org}) >= 2

\* C10: in delete mode every removal candidate gets exactly one delete
\* attempt whatever the outcome of earlier attempts: no candidate is attempted
\* twice, the counters count the attempts by outcome, and at the end of the
\* run every leaf candidate and every parent candidate has been attempted, so
\* deleted + failed is the number of candidates.
EveryCandidateAttemptedOnce ==
  (mode = "dedup" /\ doDelete) =>
    /\ \A c \in ProjectCandidates :
         Cardinality(EntriesAbout({"DeleteProject"}, c[1], c[2])) <= 1
    /\ \A c \in p2found :
         Cardinality(EntriesAbout({"DeleteTarget"}, c[1], c[2])) <= 1
    /\ totalDeleted = Cardinality({e \in Entries({"DeleteProject"}) : log[e].ok})
    /\ totalFailed = Cardinality({e \in Entries({"DeleteProject"}) : ~log[e].ok})
    /\ targetsDeleted = Cardinality({e \in Entries({"DeleteTarget"}) : log[e].ok})
    /\ targetsFailed = Cardinality({e \in Entries({"DeleteTarget"}) : ~log[e].ok})
    /\ mpc = "done" =>
         /\ \A c \in ProjectCandidates :
              Cardinality(EntriesAbout({"DeleteProject"}, c[1], c[2])) = 1
         /\ \A c \in p2found :
              Cardinality(EntriesAbout({"DeleteTarget"}, c[1], c[2])) = 1
         /\ totalDeleted + totalFailed = Cardinality(ProjectCandidates)
         /\ totalDuplicates = Cardinality(ProjectCandidates)
         /\ targetsDeleted + targetsFailed = Cardinality(p2found)

\* A finished delete run in which a failed project delete was followed by
\* an attempt in another account, and a failed target delete by another
\* target delete.
AttemptsGoOnAfterFailure ==
  /\ mode = "dedup" /\ doDelete /\ mpc = "done"
  /\ \E e, f \in Entries({"DeleteProject"}) :
       ~log[e].ok /\ e < f /\ log[f].org # log[e].org
  /\ \E e, f \in Entries({"DeleteTarget"}) : ~log[e].ok /\ e < f

\* Every task has released its permit and returned, the results channel is
\* closed, and the collector has left its loop with exactly one result of
\* every account.
Finished ==
  /\ \A o \in Orgs : pc[o] = "done"
  /\ sem = 0 /\ wg = 0
  /\ closed
  /\ results = <<>>
  /\ mpc # "collect"
  /\ Len(received) = Cardinality(Orgs)
  /\ Range(received) = Orgs

\* C7: with a concurrency limit of at least 1, every account task eventually
\* acquires the permit, finishes and releases it, on success and on error
\* paths alike; the results channel is then closed and the collector
\* terminates, having received exactly one result per account.
EveryTaskFinishes == (concurrency >= 1) => <>Finished

\* Both tasks have taken their turn under a limit of 1, one of them on an
\* error path, and the collector has terminated.
FinishedWithLimitOne ==
  /\ concurrency = 1
  /\ Finished
  /\ Failed # {} /\ Succeeded # {}

\* The duplicate groups of account o that hold the fetched record p.
GroupsHolding(o, p) ==
  {i \in 1..Len(taskRes[o].groups) : p \in Range(taskRes[o].groups[i].projects)}

SharedNameTargets ==
  {t.ID : t \in {u \in Range(ParentWorld) :
                   \E v \in Range(ParentWorld) :
                     v.ID # u.ID /\ v.DisplayName = u.DisplayName}}

TargetOps == {"DeleteTarget", "ReportTarget"}

\* C12: a parent record whose display name no other parent record of the
\* account has is never deleted and never reported, although no leaf record
\* references it.
UniqueNameTargetUntouched ==
  \A e \in Entries(TargetOps) : log[e].id \in SharedNameTargets

\* A finished delete run that deleted an empty parent record of a shared name
\* and left the empty parent record of a unique name in place.
UniqueNameTargetLeft ==
  /\ mode = "dedup" /\ doDelete /\ mpc = "done"
  /\ \E e \in Entries({"DeleteTarget"}) :
       /\ log[e].ok
       /\ \E t \in Range(worldTargets[log[e].org]) :
            /\ t.ID \notin SharedNameTargets
            /\ \A p \in Range(worldProjects[log[e].org]) : p.TargetID # t.ID

\* Whether leaf records of account o reference the parent record id.
HasLeaves(o, id) == \E p \in Range(worldProjects[o]) : p.TargetID = id

\* Whether both fetches of phase 2 returned without an error for account o,
\* the fetch of the parent records with at least one record.
Phase2Fetched(o) ==
  /\ \E e \in Entries({"FetchTargets"}) : log[e].org = o /\ log[e].ok /\ log[e].id >= 1
  /\ \E e \in Entries({"FetchProjects"}) : log[e].org = o /\ log[e].ok

\* C13: at the end of the run, in every account phase 2 has fetched, a parent
\* record without leaf records that shares its display name with a parent
\* record that has leaf records has been reported or submitted for deletion.
OrphanSiblingsAreCandidates ==
  (mode = "dedup" /\ mpc = "done") =>
    \A o \in orgsAffected :
      Phase2Fetched(o) =>
        \A t, u \in Range(ParentWorld) :
          (/\ t.ID # u.ID /\ t.DisplayName = u.DisplayName
           /\ ~HasLeaves(o, t.ID) /\ HasLeaves(o, u.ID))
            => EntriesAbout(TargetOps, o, t.ID) # {}

\* Whether the scan and both fetches of phase 2 returned every record of
\* account o.
CompleteFetches(o) ==
  /\ o \in Succeeded
  /\ fetched[o].items = worldProjects[o]
  /\ \E e \in Entries({"FetchTargets"}) :
       log[e].org = o /\ log[e].ok /\ log[e].id = Len(ParentWorld)
  /\ \E e \in Entries({"FetchProjects"}) :
       log[e].org = o /\ log[e].ok /\ log[e].id = Len(worldProjects[o])

\* The parent records of account o a delete run would submit when every leaf
\* delete succeeds: those of a shared name that no leaf record other than the
\* phase 1 candidates references.
WouldBeSubmitted(o) ==
  {id \in SharedNameTargets :
     \A p \in Range(worldProjects[o]) :
       p.TargetID = id => <<o, p.ID>> \in ProjectCandidates}

\* C14: the parent records a dry run reports for an account are exactly those
\* a delete run from the same state would submit when every leaf delete
\* succeeds.
DryRunReportsWhatDeleteSubmits ==
  (mode = "dedup" /\ ~doDelete /\ mpc = "done") =>
    \A o \in orgsAffected :
      CompleteFetches(o) =>
        {log[e].id : e \in {f \in Entries({"ReportTarget"}) : log[f].org = o}}
          = WouldBeSubmitted(o)

\* ---------------------------------------------------------------- properties of the API client

LinkFetchers == {"FetchProjects", "FetchTargets"}

\* Whether a server reference has the string url, and the parts of the one
\* that has.
PageOf(url) == IF url = <<>> THEN 1 ELSE Cursor(url)
IsBuilt(url) == \E c \in UrlCases : Build(c, PageOf(url)) = url
CaseOf(url) == CHOOSE c \in UrlCases : Build(c, PageOf(url)) = url

\* Where a request goes: to the API host when the URL is the base URL with a
\* path, else where the parts of the reference say; nowhere when the string
\* has no scheme and host.
Destination(url) ==
  IF HasPrefix(url, baseURL \o <<"/">>) THEN [scheme |-> Https, host |-> ApiHost]
  ELSE IF IsBuilt(url) /\ CaseOf(url).kind \in {"abs", "query"}
  THEN [scheme |-> CaseOf(url).scheme, host |-> CaseOf(url).host]
  ELSE [scheme |-> <<>>, host |-> <<>>]

\* C15: every request of FetchProjects and FetchTargets, the first one and
\* every followed continuation, goes to the host of the API base URL or, over
\* HTTPS, to a subdomain of it, whatever the server answers.
RequestsStayOnApiHost ==
  fn \in LinkFetchers =>
    \A i \in 1..Len(requests) :
      \/ Destination(requests[i]).host = ApiHost
      \/ Destination(requests[i]) = [scheme |-> Https, host |-> SubHost]

\* A fetch that followed a reference to a subdomain and then returned at a
\* reference to another host.
SubdomainFollowedOtherRefused ==
  /\ fn \in LinkFetchers /\ ret # NoResult
  /\ Len(requests) = 2
  /\ Destination(requests[2]) = [scheme |-> Https, host |-> SubHost]
  /\ \E k \in checks :
       ~k.ok /\ CaseOf(k.url).kind = "abs" /\ CaseOf(k.url).scheme = Https
             /\ CaseOf(k.url).host = OtherHost

\* The hosts of the references that are the host allowedHost or a subdomain
\* of it.
Accepting(allowedHost) == IF allowedHost = ApiHost THEN {ApiHost, SubHost} ELSE {allowedHost}

\* Whether the parts of the reference url make it a string that begins with
\* "/" or an absolute HTTPS URL on allowedHost or a subdomain of it.
AllowedByParts(url, allowedHost) ==
  \/ CaseOf(url).kind \in {"rel", "net"}
  \/ /\ CaseOf(url).kind = "abs"
     /\ CaseOf(url).scheme = Https
     /\ CaseOf(url).host \in Accepting(allowedHost)

\* C16: isAllowedNextURL(next, host) is true exactly when next begins with
\* "/" or is an absolute HTTPS URL whose host is host or a subdomain of host;
\* it is false for the empty reference, for every other scheme, for every
\* other host and for a host that only ends in the name of host.
AllowedExactly ==
  \A k \in checks :
    /\ IsBuilt(k.url)
    /\ k.ok <=> AllowedByParts(k.url, k.host)

\* A fetch whose check accepted an HTTPS reference to a subdomain and refused
\* an HTTPS reference to a host that only ends in the allowed host's name.
SubdomainAcceptedSuffixRefused ==
  /\ \E k \in checks :
       k.ok /\ CaseOf(k.url).scheme = Https /\ CaseOf(k.url).host = SubHost
  /\ \E k \in checks :
       ~k.ok /\ CaseOf(k.url).scheme = Https /\ CaseOf(k.url).host = SuffixHost
             /\ CaseOf(k.url).kind = "abs"

\* The records of a page as the fetcher that is called decodes them.
Decoded(r) == IF fn = "FetchProjects" THEN DecodeProjects(r.data) ELSE r.data

\* The records of the answers to the first k requests.
RecordsUpTo(k) == Concat([i \in 1..k |-> Decoded(Answer(requests[i]))])

\* Whether the answer r carries a reference that is not allowed.
HasRefusedRef(r) ==
  r.status = 200 /\ r.next # <<>> /\ ~AllowedByParts(r.next, ApiHost)

\* C17: when a page of FetchProjects or FetchTargets carries a reference that
\* is not allowed, the request for that page is the last one and the fetch
\* returns, without error, the records of all pages up to and including it.
RefusedReferenceEndsFetch ==
  fn \in LinkFetchers =>
    \A i \in 1..Len(requests) :
      HasRefusedRef(Answer(requests[i])) =>
        /\ i = Len(requests)
        /\ ret = [err |-> FALSE, items |-> RecordsUpTo(i)]

\* A fetch that returned the records of two pages at a refused reference on
\* the second page.
ReturnedAtRefusedSecondPage ==
  /\ fn \in LinkFetchers
  /\ Len(requests) = 2
  /\ HasRefusedRef(Answer(requests[2]))
  /\ ret # NoResult /\ ~ret.err /\ Len(ret.items) = 2

\* C18: a fetch of FetchProjects or FetchTargets returns an error and no
\* records whenever a page the server holds answers with another status than
\* 200, except that a 404 on the first page gives an empty result without
\* error.
NonSuccessFails ==
  fn \in LinkFetchers =>
    \A i \in 1..Len(requests) :
      (Cursor(requests[i]) \in 1..Len(server) /\ Answer(requests[i]).status # 200) =>
        IF Answer(requests[i]).status = 404 /\ i = 1
        THEN ret = [err |-> FALSE, items |-> <<>>]
        ELSE ret = FetchError

\* Whether the pages of the server all answer 200, every page but the last
\* with an allowed reference and the last page without a reference.
ProperChain ==
  \A i \in 1..Len(server) :
    /\ server[i].status = 200
    /\ IF i = Len(server) THEN server[i].next = <<>>
       ELSE server[i].next # <<>> /\ AllowedByParts(server[i].next, ApiHost)

\* C19: over a chain of pages that all answer 200, linked by allowed
\* references and ending in a page without reference, FetchProjects and
\* FetchTargets request every page once, in the order of the chain, stop
\* after the last page and return the records of the pages in page order
\* (the result of the fetch loop the two runs take from the same answers).
ChainFetchedInOrder ==
  (fn \in LinkFetchers /\ ProperChain) =>
    /\ \A i \in 1..Len(requests) : Cursor(requests[i]) = i
    /\ Len(requests) <= Len(server)
    /\ ret = NoResult => Len(requests) < Len(server)
    /\ ret # NoResult =>
         /\ Len(requests) = Len(server)
         /\ ret = [err |-> FALSE,
                   items |-> Concat([i \in 1..Len(server) |-> Decoded(server[i])])]
         /\ ret = IF fn = "FetchProjects" THEN FetchProjects(server)
                  ELSE FetchTargets(server)

\* A fetch that returned the records of a chain of two pages linked by an
\* absolute reference.
ChainOfTwoReturned ==
  /\ fn \in LinkFetchers /\ ProperChain
  /\ Len(server) = 2
  /\ CaseOf(server[1].next).kind = "abs"
  /\ ret # NoResult /\ Len(ret.items) = 2
  /\ Len(requests) = 2

\* The records of the pages 1..k of the account listing.
OrgRecordsUpTo(k) == Concat([i \in 1..k |-> OrgAnswer(i).data])

\* C20: FetchOrgs requests the pages 1, 2, 3, ... in order, each with page
\* size 100; the first page with fewer than 100 records is the last page it
\* requests and it returns the records of all requested pages in order; after
\* a page with exactly 100 records it requests another page.
OrgPagesUntilShortPage ==
  fn = "FetchOrgs" =>
    \A i \in 1..Len(requests) :
      /\ requests[i] = [page |-> i, perPage |-> 100]
      /\ (OrgAnswer(i).status = 200 /\ Len(OrgAnswer(i).data) < 100) =>
           /\ i = Len(requests)
           /\ ret = [err |-> FALSE, items |-> OrgRecordsUpTo(i)]
      /\ (OrgAnswer(i).status = 200 /\ Len(OrgAnswer(i).data) = 100) =>
           (ret # NoResult => Len(requests) > i)

\* A listing that returned the records of two full pages and a third page
\* with one record.
TwoFullPagesAndOneShort ==
  /\ fn = "FetchOrgs"
  /\ Len(requests) = 3
  /\ Len(OrgAnswer(1).data) = 100 /\ Len(OrgAnswer(2).data) = 100
  /\ Len(OrgAnswer(3).data) = 1
  /\ ret # NoResult /\ ~ret.err /\ Len(ret.items) = 201

\* The calls of one function of the targets package.
CallsOf(f) == {i \in 1..Len(calls) : calls[i].fn = f}

\* C21: TargetID gives identical strings for identical (account, connector,
\* target) triples, and for a fixed target a change of the account alone or of
\* the connector alone always changes the string.
TargetIDSeparatesAccountsAndConnectors ==
  \A i \in CallsOf("TargetID"), j \in CallsOf("TargetID") :
    LET a == calls[i].args
        b == calls[j].args
    IN /\ a = b => calls[i].ret = calls[j].ret
       /\ (a[1] # b[1] /\ a[2] = b[2] /\ a[3] = b[3]) => calls[i].ret # calls[j].ret
       /\ (a[1] = b[1] /\ a[2] # b[2] /\ a[3] = b[3]) => calls[i].ret # calls[j].ret

\* Two calls of TargetID for one target under one connector in two accounts.
SameTargetInTwoAccounts ==
  /\ CallsOf("TargetID") = {1, 2}
  /\ calls[1].args[1] # calls[2].args[1]
  /\ calls[1].args[2] = calls[2].args[2]
  /\ calls[1].args[3] = calls[2].args[3]
  /\ calls[1].ret # calls[2].ret

\* C22: TargetID is collision-free: two distinct (account, connector, target)
\* triples are never assigned the same string.
DistinctTriplesDistinctIDs ==
  \A i \in CallsOf("TargetID"), j \in CallsOf("TargetID") :
    calls[i].args # calls[j].args => calls[i].ret # calls[j].ret

\* Whether a composite name has the "/" that ends the owner part.
HasSlash(name) == \E k \in 1..Len(name) : name[k] = "/"

\* C23: ProjectToTarget returns ok = true for each of the eight supported
\* origin tags when the name has the form "<owner>/<repo>:<path>", and
\* ok = false for gitlab, the empty origin, an unlisted origin and every name
\* without a "/".
SupportedOriginsAccepted ==
  \A i \in CallsOf("ProjectToTarget") :
    LET name == calls[i].args[1]
        origin == calls[i].args[2]
    IN calls[i].ret.ok <=>
         /\ origin \in {"github", "github-cloud-app", "github-enterprise",
                         "bitbucket-cloud", "bitbucket-connect-app",
                         "bitbucket-cloud-app", "azure-repos", "bitbucket-server"}
         /\ HasSlash(name)

\* One well-formed name, refused for gitlab and accepted for the cloud app
\* origin.
GitlabRefusedCloudAppAccepted ==
  /\ CallsOf("ProjectToTarget") = {1, 2}
  /\ calls[1].args[1] = calls[2].args[1]
  /\ HasSlash(calls[1].args[1])
  /\ calls[1].args[2] = "gitlab" /\ ~calls[1].ret.ok
  /\ calls[2].args[2] = "bitbucket-cloud-app" /\ calls[2].ret.ok

\* C24: the origin alone decides the shape of the target: bitbucket-server
\* fills only ProjectKey and RepoSlug and ignores the branch hint, every other
\* supported origin fills only Owner, Name and the branch of the hint; no
\* target has fields of both shapes.
ShapeFollowsOrigin ==
  \A i \in CallsOf("ProjectToTarget") :
    LET origin == calls[i].args[2]
        branch == calls[i].args[3]
        t == calls[i].ret.target
    IN calls[i].ret.ok =>
         IF origin = "bitbucket-server"
         THEN /\ t.ProjectKey # <<>> /\ t.RepoSlug # <<>>
              /\ t.Owner = <<>> /\ t.Name = <<>> /\ t.Branch = <<>>
         ELSE /\ t.Owner # <<>> /\ t.Name # <<>> /\ t.Branch = branch
              /\ t.ProjectKey = <<>> /\ t.RepoSlug = <<>>

\* One name and one branch hint, given to bitbucket-server and to github.
BranchHintIgnoredForKeySlug ==
  /\ CallsOf("ProjectToTarget") = {1, 2}
  /\ calls[1].args[1] = calls[2].args[1]
  /\ calls[1].args[3] = <<"m">> /\ calls[2].args[3] = <<"m">>
  /\ calls[1].args[2] = "bitbucket-server" /\ calls[1].ret.ok
  /\ calls[1].ret.target.Branch = <<>>
  /\ calls[2].args[2] = "github" /\ calls[2].ret.ok
  /\ calls[2].ret.target.Branch = <<"m">>

\* C25: in a manifest task the connector-map fetch and the leaf fetch run
\* while the task holds its one permit, the task goes on (derives and sends its
\* result) only after both have completed, its result is a failure exactly
\* when at least one of the two failed, and a failed result carries no entry.
SubfetchesJoinedBeforeDerive ==
  [][\A o \in Orgs :
       /\ sub'[o] # sub[o] => (pc[o] = "run" /\ sem' = sem /\ sem >= 1)
       /\ taskRes'[o] # taskRes[o] =>
            /\ sub[o].int # NoResult /\ sub[o].proj # NoResult
            /\ taskRes'[o].err <=> (sub[o].int.err \/ sub[o].proj.err)
            /\ taskRes'[o].err => taskRes'[o].targets = <<>>]_vars

\* Account o1 has reported a failure although its leaf fetch returned records
\* (its connector-map fetch failed alone), while in account o2 the leaf fetch
\* has completed before the connector-map fetch.
ConnectorFetchFailedAlone ==
  /\ mode = "refresh"
  /\ taskRes["o1"] # NoResult /\ taskRes["o1"].err
  /\ taskRes["o1"].targets = <<>>
  /\ ~fetched["o1"].err /\ fetched["o1"].items # <<>>
  /\ pc["o2"] = "run"
  /\ sub["o2"].proj # NoResult /\ sub["o2"].int = NoResult

\* Whether the leaf record p of account o gives a manifest entry: a supported
\* origin that passes the integration filter, a connector with an ID, a name
\* that parses.
GivesEntry(o, p) ==
  LET key == OriginToIntegrationKey(p.Origin) IN
    /\ p.Origin \in SCMOrigins
    /\ integrationType = "" \/ p.Origin = integrationType \/ key = integrationType
    /\ key \in DOMAIN IntegrationsOf(o) /\ IntegrationsOf(o)[key] # <<>>
    /\ ProjectToTarget(p.Name, p.Origin, p.Branch).ok

\* The (account, connector, target) triple of a leaf record.
TripleOf(o, p) ==
  [Target |-> ProjectToTarget(p.Name, p.Origin, p.Branch).target, OrgID |-> o,
   IntegrationID |-> IntegrationsOf(o)[OriginToIntegrationKey(p.Origin)]]

\* A sequence without the later occurrences of its elements.
RECURSIVE FirstOccurrences(_)
FirstOccurrences(es) ==
  IF es = <<>> THEN <<>>
  ELSE LET init == FirstOccurrences(SubSeq(es, 1, Len(es) - 1))
           last == es[Len(es)]
       IN IF last \in Range(init) THEN init ELSE Append(init, last)

\* The first-occurrence subsequence of the triples of the records account o
\* fetched, in fetch order.
BlockOf(o) ==
  LET giving == SelectSeq(fetched[o].items, LAMBDA p : GivesEntry(o, p))
  IN FirstOccurrences([i \in 1..Len(giving) |-> TripleOf(o, giving[i])])

ManifestWritersAreDisjoint ==
  [][\A o \in Orgs :
       LET taskStep == pc[o] = "run" /\ pc'[o] = "sent" /\ Joined(o)
       IN /\ sub'[o].int # sub[o].int =>
               \/ taskStep
               \/ /\ pc[o] = "run" /\ sub[o].int = NoResult
                  /\ sub'[o].proj = sub[o].proj /\ pc' = pc /\ taskRes' = taskRes
          /\ sub'[o].proj # sub[o].proj =>
               \/ taskStep
               \/ /\ pc[o] = "run" /\ sub[o].proj = NoResult
                  /\ sub'[o].int = sub[o].int /\ pc' = pc /\ taskRes' = taskRes
          /\ taskRes'[o] # taskRes[o] =>
               /\ taskStep /\ taskRes[o] = NoResult
               /\ \A q \in Orgs \ {o} :
                    sub'[q] = sub[q] /\ taskRes'[q] = taskRes[q] /\ pc'[q] = pc[q]
          /\ (out' # out \/ processedOrgs' # processedOrgs \/ failedOrgs' # failedOrgs) =>
               /\ mpc = "collect" /\ results # <<>> /\ results' = Tail(results)
               /\ Head(results) = taskRes[Head(results).orgID]
               /\ pc' = pc /\ sub' = sub /\ taskRes' = taskRes]_vars

\* The result of o1 waits in the channel for the collector while the task of
\* o2 is running with its connector map written and its leaf fetch under way.
CollectorAndSubfetchBothReady ==
  /\ mode = "refresh" /\ mpc = "collect"
  /\ results # <<>> /\ Head(results).orgID = "o1"
  /\ Head(results).targets # <<>>
  /\ pc["o2"] = "run"
  /\ sub["o2"].int # NoResult /\ sub["o2"].proj = NoResult

DeleteOps == {"DeleteProject", "DeleteTarget"}

\* C28: in the cleanup run no delete call is issued while a scan task is still
\* running: when a step issues a delete, all tasks have finished and the
\* results channel is closed and drained; the step is one of the main
\* goroutine, it changes no task, and it issues that one delete only.
DeletesAfterAllScans ==
  [][(\E i \in (Len(log) + 1)..Len(log') : log'[i].op \in DeleteOps) =>
       /\ closed /\ results = <<>>
       /\ \A o \in Orgs : pc[o] = "done"
       /\ mpc \in {"phase1", "phase2"}
       /\ pc' = pc /\ taskRes' = taskRes
       /\ Len(log') = Len(log) + 1
       /\ SubSeq(log', 1, Len(log)) = log]_vars

\* A finished delete run with two permits in which records of both accounts
\* were deleted and a parent record after them.
BothAccountsDeletedFrom ==
  /\ mode = "dedup" /\ doDelete /\ mpc = "done"
  /\ concurrency = 2
  /\ \A o \in Orgs : \E e \in Entries({"DeleteProject"}) : log[e].org = o /\ log[e].ok
  /\ \E e \in Entries({"DeleteTarget"}) : log[e].ok

\* C29: phase 2 touches only the accounts in which the scan found at least one
\* duplicate group: every parent fetch, leaf re-fetch, parent delete and
\* parent report line is about an account whose task succeeded with a
\* non-empty list of groups.
Phase2OnlyInAffectedAccounts ==
  mode = "dedup" =>
    \A e \in Entries(Phase2Ops) :
      /\ log[e].org \in Succeeded
      /\ taskRes[log[e].org].groups # <<>>

\* A finished run in which phase 2 has worked on o1, while o2, scanned without
\* a duplicate group, still holds two empty parents of one name and no call
\* was made for it.
EmptyParentsOfCleanAccountLeft ==
  /\ mode = "dedup" /\ mpc = "done"
  /\ \E e \in Entries({"DeleteTarget", "ReportTarget"}) : log[e].org = "o1"
  /\ "o2" \in Succeeded /\ taskRes["o2"].groups = <<>>
  /\ \E i, j \in 1..Len(worldTargets["o2"]) :
       /\ i # j
       /\ worldTargets["o2"][i].DisplayName = worldTargets["o2"][j].DisplayName
       /\ worldTargets["o2"][i].ID \notin ActiveTargets(worldProjects["o2"])
       /\ worldTargets["o2"][j].ID \notin ActiveTargets(worldProjects["o2"])
  /\ \A e \in 1..Len(log) : log[e].org # "o2"

\* The accounts for which a fetch of phase 2 has failed.
Phase2FetchFailed ==
  {log[e].org : e \in {x \in Entries({"FetchTargets", "FetchProjects"}) : ~log[x].ok}}

\* C30: when the parent fetch or the leaf re-fetch of phase 2 fails for an
\* account, no parent of that account is deleted or reported; phase 2 goes on
\* with the other accounts, so that at the end every affected account has been
\* visited; and the failure is not counted: the failed-account tally stays the
\* number of failed scans.
Phase2FetchFailureSkipsAccount ==
  mode = "dedup" =>
    /\ \A e \in Entries({"DeleteTarget", "ReportTarget"}) :
         log[e].org \notin Phase2FetchFailed
    /\ \A o \in Phase2FetchFailed : \A t \in p2found : t[1] # o
    /\ mpc = "done" =>
         \A o \in orgsAffected : \E e \in Entries({"FetchTargets"}) : log[e].org = o
    /\ mpc \in {"phase1", "phase2", "done"} => failedOrgs = Cardinality(Failed)

\* A finished delete run in which the leaf re-fetch of the account visited
\* first failed, a parent of the account visited after it was deleted, and no
\* account is counted as failed.
SecondAccountCleanedAfterFailure ==
  /\ mode = "dedup" /\ doDelete /\ mpc = "done"
  /\ failedOrgs = 0
  /\ \E e \in Entries({"FetchProjects"}), d \in Entries({"DeleteTarget"}) :
       /\ ~log[e].ok /\ log[d].ok
       /\ e < d
       /\ log[e].org # log[d].org

\* C31: with a concurrency limit of 0 no account task ever acquires the
\* permit, no result is sent, the results channel is never closed and the
\* collector never finishes: every task waits at its acquire, the collector
\* waits in its range loop, and no goroutine can take a step.
ZeroPermitsBlockTheRun ==
  (mode \in {"dedup", "refresh"} /\ concurrency = 0) =>
    /\ \A o \in Orgs : pc[o] = "wait" /\ taskRes[o] = NoResult
    /\ sem = 0 /\ wg = Cardinality(Orgs)
    /\ results = <<>> /\ received = <<>> /\ ~closed
    /\ mpc = "collect"
    /\ log = <<>>
    /\ ~ENABLED Next

\* A cleanup run in delete mode with the limit 0 over accounts that hold
\* duplicate records: it stands still in its first state.
BlockedWithDuplicatesToFind ==
  /\ mode = "dedup" /\ doDelete /\ concurrency = 0
  /\ \A o \in Orgs :
       \E i, j \in 1..Len(worldProjects[o]) :
         i # j /\ worldProjects[o][i].Name = worldProjects[o][j].Name
  /\ \A o \in Orgs : pc[o] = "wait"
  /\ mpc = "collect"
  /\ ~ENABLED Next

\* The accounts whose scan succeeded and returned records.
ScannedWithRecords == {o \in Succeeded : fetched[o].items # <<>>}

\* The leaf records of a name that account o holds now.
HeldOfName(o, name) == {p \in Range(worldProjects[o]) : p.Name = name}

\* C32: in a delete run in which every phase 1 delete has succeeded, once
\* phase 1 is over every leaf-record name occurs exactly once in each
\* successfully scanned account (here: each whose scan returned records), so
\* that a scan of the resulting state finds no duplicate group.
LeafCleanupIsIdempotent ==
  (/\ mode = "dedup" /\ doDelete /\ mpc \in {"phase2", "done"}
   /\ \A e \in Entries({"DeleteProject"}) : log[e].ok) =>
    \A o \in ScannedWithRecords :
      /\ \A p \in Range(fetched[o].items) : Cardinality(HeldOfName(o, p.Name)) = 1
      /\ \A p \in Range(worldProjects[o]) : Cardinality(HeldOfName(o, p.Name)) = 1
      /\ \A gs \in DuplicateGroups(worldProjects[o]) : gs = <<>>

====
